---------------------------- MODULE Spec2Model ----------------------------
(***************************************************************************)
(* A model of the automation server of this repository:                    *)
(*                                                                         *)
(*   - the WebSocket execution channel and the in-memory store             *)
(*     (src/server/routes.ts),                                             *)
(*   - AutomationExecutor and its prompt splitter                          *)
(*     (src/server/automation.ts),                                         *)
(*   - CustomLLMClient.createChatCompletion, first implementation          *)
(*     (src/server/CustomLLMClient.ts, lines 82-297) and the retry loop    *)
(*     of the second one (lines 472-957),                                  *)
(*   - the client's useWebSocket hook (src/client/src/lib/websocket.ts).   *)
(*                                                                         *)
(* The specifications share the variables:                                 *)
(*   Spec       the server: one socket, its message and close handlers,    *)
(*              executions of one step or by the agent                     *)
(*   SpecSteps  the same with every kind of message and multi-step         *)
(*              executions                                                 *)
(*   SpecRest   DELETE /api/automations/:id next to running executions     *)
(*   SpecParse  execute's navigation match and parseMultiStepPrompt,       *)
(*              applied to every prompt of a bounded set                   *)
(*   SpecLLM    createChatCompletion calls against a token script and an   *)
(*              HTTP endpoint that answer nondeterministically             *)
(*   SpecShape  createChatCompletion answered 2xx with JSON objects of     *)
(*              every shape _normalizeActionObject distinguishes           *)
(*   SpecSecond the second createChatCompletion                            *)
(*   SpecExecute   execute(prompt) from its navigation to its return       *)
(*   SpecExecutor  the methods of one AutomationExecutor called directly   *)
(*   SpecSettings  PATCH /api/settings                                     *)
(*   SpecClient    useWebSocket, with timers that fire                     *)
(*   SpecOverlap   createChatCompletion calls that overlap on one client   *)
(*   SpecPage      the page's isExecuting, handleExecute and handleRerun   *)
(*                 on top of useWebSocket                                  *)
(*                                                                         *)
(* Strings are modelled as sequences of words.  A prompt <<"go", "to",     *)
(* "example.com">> is the text "go to example.com": words joined by single *)
(* spaces, no leading or trailing whitespace.                              *)
(***************************************************************************)
EXTENDS Integers, Sequences, FiniteSets, TLC

VARIABLES
    \* ---- server (routes.ts, automation.ts) ----
    readyState,       \* socket -> "OPEN" | "CLOSED"
    nextReq,          \* number of the next message the server receives
    req,              \* message -> [sock, msg, mode] once received
    pc,               \* message -> position of its ws.on("message") handler
    step,             \* message -> index of the sub-step handed to act
    ex,               \* message -> the AutomationExecutor its handler created
    sent,             \* message -> events its handler/executor put on the socket
    automations,      \* MemStorage.automations: id -> record
    activeExecutors,  \* socket -> registered executor (0: no entry)
    closeH,           \* socket -> position of its ws.on("close") handler
    unhandled,        \* handlers whose promise was rejected with nobody catching
    http,             \* last REST response
    settings,         \* MemStorage.settings
    \* ---- execute / parseMultiStepPrompt on one prompt ----
    pPrompt, pPc, pGotos, pSteps,
    pActs,            \* the instructions handed to stagehand.act so far
    pResults,         \* execute's local results: what the acts resolved to
    pRet,             \* what execute returned
    \* ---- CustomLLMClient ----
    oauthToken,       \* cached token (0: null)
    cpc,              \* call -> position inside createChatCompletion
    call,             \* call -> its parameters and counters
    inflight,         \* call -> the last answer of the token script / endpoint
    result,           \* call -> returned value or thrown error
    \* ---- one AutomationExecutor whose methods are called directly ----
    useCustomLLM,     \* process.env.USE_CUSTOM_LLM is "true"
    executor,         \* its fields stagehand and page (FALSE: null), and the
                      \* model option its Stagehand was constructed with
    mpc,              \* the method that is awaiting an SDK call ("idle": none)
    ret,              \* what the last method call returned or threw
    sdk,              \* the SDK calls made so far
    initialized,      \* an initialize has completed successfully
    ncalls,           \* method calls made so far
    \* ---- the client's useWebSocket hook (client/src/lib/websocket.ts) ----
    mounted,          \* "no" | "yes" | "unmounted"
    sock,             \* readyState of ws.current ("none": null)
    isConnected,      \* the hook's state
    timer,            \* the timeout of reconnectTimeout.current is pending
    attempts,         \* calls of connect so far (counted up to MaxCount)
    closeEvents,      \* close events so far (counted up to MaxCount)
    delivered,        \* messages handed to options.onMessage (up to MaxCount)
    \* ---- the page that uses the hook (client/src/pages/WorkflowList.tsx) ----
    isExecuting,      \* the page's state of that name
    awaitingStart,    \* requests on the open socket not yet answered execution_started
    awaitingEnd       \* requests answered execution_started, their terminal event pending

srvVars == <<readyState, nextReq, req, pc, step, ex, sent, automations,
             activeExecutors, closeH, unhandled, http, settings>>
prsVars == <<pPrompt, pPc, pGotos, pSteps, pActs, pResults, pRet>>
llmVars == <<oauthToken, cpc, call, inflight, result>>
apiVars == <<useCustomLLM, executor, mpc, ret, sdk, initialized, ncalls>>
cliVars == <<mounted, sock, isConnected, timer, attempts, closeEvents, delivered>>
pageVars == <<isExecuting, awaitingStart, awaitingEnd>>
otherVars == <<apiVars, cliVars, pageVars>>
vars == <<srvVars, prsVars, llmVars, otherVars>>

--------------------------------------------------------------------------
(* Generic helpers                                                          *)

Last(s) == s[Len(s)]

Slice(s, a, b) == IF a > b THEN <<>> ELSE SubSeq(s, a, b)

Count(s, x) == Cardinality({i \in 1..Len(s) : s[i] = x})

RECURSIVE SeqsUpTo(_, _)
SeqsUpTo(S, n) ==
    IF n = 0 THEN {<<>>}
    ELSE LET shorter == SeqsUpTo(S, n - 1)
         IN  shorter \cup {Append(s, x) : s \in {t \in shorter : Len(t) = n - 1}, x \in S}

--------------------------------------------------------------------------
(* Prompts: execute's navigation regex and parseMultiStepPrompt             *)

\* /(?:go to|open|navigate to|visit)\s+(?:https?:\/\/)?([^\s,]+\.[^\s,]+)/i
NavVerbs1 == {"open", "visit"}
NavVerbs2 == {<<"go", "to">>, <<"navigate", "to">>}
\* words matching (?:https?:\/\/)?([^\s,]+\.[^\s,]+): a dot with text on both sides
UrlWords == {"example.com"}

\* number of words the navigation verb takes at word i (0: no verb there)
NavVerbLenAt(p, i) ==
    IF i + 1 <= Len(p) /\ <<p[i], p[i + 1]>> \in NavVerbs2 THEN 2
    ELSE IF p[i] \in NavVerbs1 THEN 1
    ELSE 0

\* the regex matches at word i: verb, whitespace, a word with an inner dot
NavMatchesAt(p, i) ==
    LET n == NavVerbLenAt(p, i)
    IN  n > 0 /\ i + n <= Len(p) /\ p[i + n] \in UrlWords

\* prompt.match(...): the leftmost match, 0 for null
urlMatch(p) ==
    IF \E i \in 1..Len(p) : NavMatchesAt(p, i)
    THEN CHOOSE i \in 1..Len(p) :
            NavMatchesAt(p, i) /\ \A j \in 1..(i - 1) : ~NavMatchesAt(p, j)
    ELSE 0

\* urlMatch[1], then the https:// prefix execute adds
NavUrl(p) ==
    LET i == urlMatch(p)
    IN  <<"https://", p[i + NavVerbLenAt(p, i)]>>

\* prompt.replace(/...\s*/i, ''): the first navigation clause and the
\* whitespace after it are cut out.  trail: the text ends in whitespace (the
\* space left behind by the words before a clause that ended the prompt).
cleanPrompt(p) ==
    LET i == urlMatch(p)
    IN  IF i = 0 THEN [toks |-> p, trail |-> FALSE]
        ELSE LET e   == i + NavVerbLenAt(p, i)
                 pre == Slice(p, 1, i - 1)
                 suf == Slice(p, e + 1, Len(p))
             IN  [toks |-> pre \o suf, trail |-> (suf = <<>> /\ pre # <<>>)]

\* actionKeywords, in the order of the alternation
Keywords2 == {<<"click", "on">>, <<"scroll", "to">>, <<"hover", "over">>, <<"wait", "for">>}
Keywords1 == {"click", "press", "tap", "type", "enter", "fill", "input", "select",
              "choose", "scroll", "hover", "submit", "upload"}

\* \b(click on|click|...)\s at word i: the number of words matched, 0 for none.
\* The keyword must be followed by whitespace: a following word, or the
\* trailing whitespace of the text.
KeywordLenAt(c, i) ==
    LET n == Len(c.toks)
    IN  IF i + 1 <= n /\ <<c.toks[i], c.toks[i + 1]>> \in Keywords2
           /\ (i + 1 < n \/ c.trail) THEN 2
        ELSE IF c.toks[i] \in Keywords1 /\ (i < n \/ c.trail) THEN 1
        ELSE 0

\* pattern.exec(cleanPrompt) with pattern.lastIndex at word `from`:
\* the first match at or after it, index 0 for null
PatternExec(c, from) ==
    LET hits == {i \in from..Len(c.toks) : KeywordLenAt(c, i) > 0}
    IN  IF hits = {} THEN [index |-> 0, len |-> 0]
        ELSE LET first == CHOOSE i \in hits : \A j \in hits : i <= j
             IN  [index |-> first, len |-> KeywordLenAt(c, first)]

\* variant: the loop stops after the first keyword
SplitAtFirstKeyword(c, patLast, lastIndex, parts) ==
    LET match == PatternExec(c, patLast)
    IN  IF match.index = 0 THEN parts
        ELSE Append(parts, Slice(c.toks, match.index, Len(c.toks)))

\* the while loop of parseMultiStepPrompt; patLast is pattern.lastIndex,
\* lastIndex the local variable of that name, both as word positions
RECURSIVE SplitLoop(_, _, _, _)
SplitLoop(c, patLast, lastIndex, parts) ==
    LET match == PatternExec(c, patLast)
    IN  IF match.index = 0 THEN parts
        ELSE
          LET prevText == Slice(c.toks, lastIndex, match.index - 1)
              parts1 == IF match.index > lastIndex /\ prevText # <<>> /\ Len(parts) > 0
                        THEN [parts EXCEPT ![Len(parts)] = @ \o prevText]
                        ELSE parts
              nextMatch == PatternExec(c, match.index + match.len)
          IN  IF nextMatch.index # 0
              THEN SplitLoop(c, match.index + 1, match.index,
                             Append(parts1, Slice(c.toks, match.index, nextMatch.index - 1)))
              ELSE Append(parts1, Slice(c.toks, match.index, Len(c.toks)))

parseMultiStepPrompt(p) ==
    LET c == cleanPrompt(p)
    IN  IF c.toks = <<>> THEN <<>>
        ELSE LET parts == SplitLoop(c, 1, 1, <<>>)
                 all   == IF Len(parts) = 0 THEN <<c.toks>> ELSE parts
             IN  SelectSeq(all, LAMBDA q : Len(q) > 0)

\* the instructions execute hands to stagehand.act, in order
ActInstructions(p) ==
    LET steps == parseMultiStepPrompt(p)
    IN  IF Len(steps) > 1 THEN steps ELSE <<p>>

--------------------------------------------------------------------------
(* The server: routes.ts and automation.ts                                  *)
(*                                                                          *)
(* A handler runs without interruption up to its next await of a real       *)
(* asynchronous operation (stagehand.init, page.goto, stagehand.act,        *)
(* agent.execute, the inter-step timer, stagehand.close).  The awaits of    *)
(* MemStorage resolve in microtasks, which Node runs before it delivers     *)
(* the next socket or timer event, so they do not split an action.          *)
(* ws.send on a socket that is no longer open drops the message.            *)

MaxRequests == 2

Sockets == {"ws"}
Reqs == 1..MaxRequests
NoExecutor == 0

\* z.enum(["openai", "anthropic", "gemini"])
AutomationModels == {"openai", "anthropic", "gemini"}
\* the models whose <MODEL>_API_KEY is set in the server's environment
ApiKeyEnv == {"openai"}

SinglePrompt == <<"click", "a">>
MultiPrompt == <<"go", "to", "example.com", "click", "a", "type", "a">>

\* what a client may put on the socket: text that is not JSON, a message of
\* another type, and execute_automation with good and bad prompt and model
Messages ==
    {[json |-> FALSE, type |-> "", prompt |-> <<>>, model |-> ""],
     [json |-> TRUE, type |-> "ping", prompt |-> <<>>, model |-> ""]}
    \cup {[json |-> TRUE, type |-> "execute_automation", prompt |-> x[1], model |-> x[2]] :
            x \in {<<MultiPrompt, "llama">>, <<<<>>, "openai">>,
                    <<SinglePrompt, "openai">>, <<MultiPrompt, "openai">>,
                    <<SinglePrompt, "anthropic">>}}

NoMessage == [json |-> FALSE, type |-> "none", prompt |-> <<>>, model |-> ""]

\* variant: the model is any string
acceptsAnyModel(m) == m.type = "execute_automation" /\ Len(m.prompt) >= 1

\* executeSchema.parse(data) does not throw
executeSchemaAccepts(m) ==
    /\ m.type = "execute_automation"
    /\ Len(m.prompt) >= 1
    /\ m.model \in AutomationModels

\* an AutomationExecutor.  created: the constructor has run; cleanupCalls and
\* closeCalls count the calls of cleanup() and of stagehand.close(); failure
\* is the call that threw, as the message of the 'error' log entry names it
NewExecutor ==
    [created |-> FALSE, stagehand |-> FALSE, page |-> FALSE, logs |-> <<>>,
     gotos |-> <<>>, acts |-> <<>>, agentRuns |-> 0, cleanupCalls |-> 0,
     closeCalls |-> 0, failure |-> "none"]

\* the part of the state one handler works on
Local(r) ==
    [ex |-> ex[r], sent |-> sent[r], autos |-> automations,
     reg |-> activeExecutors, pc |-> pc[r], step |-> step[r], thrown |-> FALSE]

Commit(r, h) ==
    /\ ex' = [ex EXCEPT ![r] = h.ex]
    /\ sent' = [sent EXCEPT ![r] = h.sent]
    /\ automations' = h.autos
    /\ activeExecutors' = h.reg
    /\ pc' = [pc EXCEPT ![r] = h.pc]
    /\ step' = [step EXCEPT ![r] = h.step]

\* ws.send(JSON.stringify({type: ev, ...}))
wsSend(h, s, ev) ==
    IF readyState[s] = "OPEN" THEN [h EXCEPT !.sent = Append(@, ev)] ELSE h

\* AutomationExecutor.log: push, then send if the socket is open
log(h, s, status) ==
    wsSend([h EXCEPT !.ex.logs = Append(@, status)], s, "execution_log")

Merge(rec, updates) ==
    [f \in DOMAIN rec |-> IF f \in DOMAIN updates THEN updates[f] ELSE rec[f]]

\* MemStorage.createAutomation
createAutomation(autos, id, insert) == (id :> insert) @@ autos

\* variant: the update is lost
updateNothing(autos, id, updates) == autos

\* variant: Map.set whether or not the id is there
upsertAutomation(autos, id, updates) ==
    IF id \notin DOMAIN autos THEN (id :> updates) @@ autos
    ELSE [autos EXCEPT ![id] = Merge(@, updates)]

\* MemStorage.updateAutomation
updateAutomation(autos, id, updates) ==
    IF id \notin DOMAIN autos THEN autos
    ELSE [autos EXCEPT ![id] = Merge(@, updates)]

\* variant: Map.clear instead of Map.delete
deleteEveryAutomation(autos, id) ==
    [autos |-> [i \in {} |-> 0], deleted |-> id \in DOMAIN autos]

\* MemStorage.deleteAutomation: the map without the id, and Map.delete's answer
deleteAutomation(autos, id) ==
    [autos |-> [i \in DOMAIN autos \ {id} |-> autos[i]],
     deleted |-> id \in DOMAIN autos]

\* variant: the error of stagehand.close() leaves cleanup
closeErrorEscapes(closeOk) == ~closeOk

\* AutomationExecutor.cleanup once stagehand.close() has settled: it logs
\* and returns; TRUE would mean the error leaves cleanup
cleanupThrows(closeOk) == FALSE

\* the outer catch of the message handler
outerCatch(h, s) ==
    [wsSend(h, s, "execution_error") EXCEPT !.pc = "done"]

\* variant: the finally block leaves the map entry
finallyKeepsEntry(h, s) == [h EXCEPT !.pc = "done"]

\* the end of the finally block
finallyDelete(h, s) == [h EXCEPT !.reg[s] = NoExecutor, !.pc = "done"]

\* the finally block: cleanup() up to its await of stagehand.close()
finallyCleanup(h, s) ==
    LET h1 == [h EXCEPT !.ex.cleanupCalls = @ + 1]
    IN  IF h1.ex.stagehand
        THEN [h1 EXCEPT !.ex.closeCalls = @ + 1, !.pc = "cleanup"]
        ELSE finallyDelete(h1, s)

\* the event the handler sends once execute/executeAgent has returned
completionEvent(res) == "execution_completed"

\* lines 70-88 and the finally block
routeComplete(h, s, id, res) ==
    LET h1 == [h EXCEPT !.autos = updateAutomation(@, id,
                   [status |-> IF res.success THEN "success" ELSE "error",
                    result |-> res.result, error |-> res.error,
                    logs |-> "executor", duration |-> "set"])]
    IN  finallyCleanup(wsSend(h1, s, completionEvent(res)), s)

\* variant: the catch block records the error and tells the client nothing
routeCatchSilent(h, s, id) ==
    finallyCleanup([h EXCEPT !.autos = updateAutomation(@, id,
                       [status |-> "error", error |-> "message", logs |-> "executor"])], s)

\* lines 89-104 and the finally block
routeCatch(h, s, id) ==
    LET h1 == [h EXCEPT !.autos = updateAutomation(@, id,
                   [status |-> "error", error |-> "message", logs |-> "executor"])]
    IN  finallyCleanup(wsSend(h1, s, "execution_error"), s)

\* the catch block of initialize: it logs and throws again
initializeFail(h, s) == log([h EXCEPT !.ex.failure = "initialize"], s, "error")

\* the catch block of execute / executeAgent
executeFail(h, s, id) ==
    routeComplete(log([h EXCEPT !.ex.failure = "execute"], s, "error"), s, id,
                  [success |-> FALSE, result |-> "undefined", error |-> "message"])

executeOk(h, s, id) ==
    routeComplete(h, s, id,
                  [success |-> TRUE, result |-> "value", error |-> "undefined"])

\* execute from line 110: the sub-steps, and the first call of act
executeSteps(h, s, p) ==
    LET steps == parseMultiStepPrompt(p)
    IN  IF Len(steps) > 1
        THEN LET h1 == log(log(h, s, "running"), s, "running")
             IN  [h1 EXCEPT !.ex.acts = Append(@, steps[1]), !.step = 1, !.pc = "act"]
        ELSE LET h1 == log(h, s, "running")
             IN  [h1 EXCEPT !.ex.acts = Append(@, p), !.step = 0, !.pc = "act"]

\* executeAgent from line 191: the agent is created and started
agentSteps(h, s, p) ==
    LET h1 == log(log(h, s, "running"), s, "running")
    IN  [h1 EXCEPT !.ex.agentRuns = @ + 1, !.pc = "agent"]

\* execute / executeAgent up to the first await
executeStart(h, s, id, p, mode) ==
    IF ~(h.ex.stagehand /\ h.ex.page) THEN executeFail(h, s, id)
    ELSE LET h1 == log(h, s, "running")
         IN  IF urlMatch(p) # 0
             THEN [log(h1, s, "running") EXCEPT
                      !.ex.gotos = Append(@, NavUrl(p)), !.pc = "goto"]
             ELSE IF mode = "agent" THEN agentSteps(h1, s, p)
                  ELSE executeSteps(h1, s, p)

\* settings?.automationMode || "act"
AutomationMode == IF settings.automationMode = "agent" THEN "agent" ELSE "act"

\* wss.on("connection")
Connect(s) ==
    /\ readyState[s] = "NONE"
    /\ readyState' = [readyState EXCEPT ![s] = "OPEN"]
    /\ UNCHANGED <<nextReq, req, pc, step, ex, sent, automations, activeExecutors,
                   closeH, unhandled, http, settings, prsVars, llmVars, otherVars>>

\* ws.on("message"), up to the await of stagehand.init() or to its end
ReceiveMessage(s, m) ==
    LET r  == nextReq
        h0 == Local(r)
    IN
    /\ readyState[s] = "OPEN"
    /\ nextReq <= MaxRequests
    /\ nextReq' = nextReq + 1
    /\ req' = [req EXCEPT ![r] = [sock |-> s, msg |-> m, mode |-> AutomationMode]]
    /\ IF ~m.json THEN Commit(r, outerCatch(h0, s))
       ELSE IF m.type # "execute_automation" THEN Commit(r, [h0 EXCEPT !.pc = "done"])
       ELSE IF ~executeSchemaAccepts(m) THEN Commit(r, outerCatch(h0, s))
       ELSE
         LET h1 == wsSend(h0, s, "execution_started")
             h2 == [h1 EXCEPT
                      !.autos = createAutomation(@, r,
                          [status |-> "running", prompt |-> m.prompt, model |-> m.model,
                           result |-> "null", logs |-> "null", error |-> "null",
                           duration |-> "null"]),
                      !.ex.created = TRUE,
                      !.reg[s] = r]
             h3 == log(h2, s, "running")
         IN  IF m.model \notin ApiKeyEnv
             THEN Commit(r, routeCatch(initializeFail(h3, s), s, r))
             ELSE Commit(r, [h3 EXCEPT !.ex.stagehand = TRUE, !.pc = "init"])
    /\ UNCHANGED <<readyState, closeH, unhandled, http, settings, prsVars, llmVars, otherVars>>

\* stagehand.init() settles: initialize ends, execute or executeAgent starts
InitReturn(r, ok) ==
    LET s == req[r].sock
        h0 == Local(r)
    IN
    /\ pc[r] = "init"
    /\ IF ok
       THEN Commit(r, executeStart(log([h0 EXCEPT !.ex.page = TRUE], s, "success"),
                                   s, r, req[r].msg.prompt, req[r].mode))
       ELSE Commit(r, routeCatch(initializeFail(h0, s), s, r))
    /\ UNCHANGED <<readyState, nextReq, req, closeH, unhandled, http, settings,
                   prsVars, llmVars, otherVars>>

\* page.goto() settles
GotoReturn(r, ok) ==
    LET s == req[r].sock
        h0 == Local(r)
    IN
    /\ pc[r] = "goto"
    /\ IF ~ok THEN Commit(r, executeFail(h0, s, r))
       ELSE IF req[r].mode = "agent"
            THEN Commit(r, agentSteps(log(h0, s, "success"), s, req[r].msg.prompt))
            ELSE Commit(r, executeSteps(log(h0, s, "success"), s, req[r].msg.prompt))
    /\ UNCHANGED <<readyState, nextReq, req, closeH, unhandled, http, settings,
                   prsVars, llmVars, otherVars>>

\* stagehand.act() settles
ActReturn(r, ok) ==
    LET s == req[r].sock
        h0 == Local(r)
        n == Len(parseMultiStepPrompt(req[r].msg.prompt))
    IN
    /\ pc[r] = "act"
    /\ IF ~ok THEN Commit(r, executeFail(h0, s, r))
       ELSE IF step[r] = 0 THEN Commit(r, executeOk(log(h0, s, "success"), s, r))
       ELSE IF step[r] < n THEN Commit(r, [log(h0, s, "success") EXCEPT !.pc = "delay"])
       ELSE Commit(r, executeOk(log(log(h0, s, "success"), s, "success"), s, r))
    /\ UNCHANGED <<readyState, nextReq, req, closeH, unhandled, http, settings,
                   prsVars, llmVars, otherVars>>

\* the one second between two steps is over: the next step goes to act
DelayElapsed(r) ==
    LET s == req[r].sock
        h0 == Local(r)
        steps == parseMultiStepPrompt(req[r].msg.prompt)
    IN
    /\ pc[r] = "delay"
    /\ Commit(r, [log(h0, s, "running") EXCEPT
                     !.ex.acts = Append(@, steps[step[r] + 1]),
                     !.step = step[r] + 1, !.pc = "act"])
    /\ UNCHANGED <<readyState, nextReq, req, closeH, unhandled, http, settings,
                   prsVars, llmVars, otherVars>>

\* agent.execute() settles
AgentReturn(r, ok) ==
    LET s == req[r].sock
        h0 == Local(r)
    IN
    /\ pc[r] = "agent"
    /\ IF ok THEN Commit(r, executeOk(log(h0, s, "success"), s, r))
       ELSE Commit(r, executeFail(h0, s, r))
    /\ UNCHANGED <<readyState, nextReq, req, closeH, unhandled, http, settings,
                   prsVars, llmVars, otherVars>>

\* stagehand.close(), called by the finally block, settles
CleanupReturn(r, ok) ==
    LET s == req[r].sock
        h0 == Local(r)
        h1 == log(h0, s, IF ok THEN "success" ELSE "error")
    IN
    /\ pc[r] = "cleanup"
    /\ IF cleanupThrows(ok) THEN Commit(r, outerCatch(h0, s))
       ELSE Commit(r, finallyDelete(h1, s))
    /\ UNCHANGED <<readyState, nextReq, req, closeH, unhandled, http, settings,
                   prsVars, llmVars, otherVars>>

\* the socket closes; ws.on("close") runs up to its await of stagehand.close()
SocketClose(s) ==
    LET e == activeExecutors[s]
    IN
    /\ readyState[s] = "OPEN"
    /\ readyState' = [readyState EXCEPT ![s] = "CLOSED"]
    /\ IF e = NoExecutor
       THEN /\ closeH' = [closeH EXCEPT ![s] = [pc |-> "done", ex |-> e]]
            /\ UNCHANGED <<ex, activeExecutors>>
       ELSE IF ex[e].stagehand
       THEN /\ ex' = [ex EXCEPT ![e].cleanupCalls = @ + 1, ![e].closeCalls = @ + 1]
            /\ closeH' = [closeH EXCEPT ![s] = [pc |-> "cleanup", ex |-> e]]
            /\ UNCHANGED activeExecutors
       ELSE /\ ex' = [ex EXCEPT ![e].cleanupCalls = @ + 1]
            /\ closeH' = [closeH EXCEPT ![s] = [pc |-> "done", ex |-> e]]
            /\ activeExecutors' = [activeExecutors EXCEPT ![s] = NoExecutor]
    /\ UNCHANGED <<nextReq, req, pc, step, sent, automations, unhandled, http,
                   settings, prsVars, llmVars, otherVars>>

\* stagehand.close(), called by the close handler, settles
CloseHandlerReturn(s, ok) ==
    LET e == closeH[s].ex
    IN
    /\ closeH[s].pc = "cleanup"
    /\ closeH' = [closeH EXCEPT ![s].pc = "done"]
    /\ IF cleanupThrows(ok)
       THEN /\ unhandled' = unhandled \cup {<<"close", s>>}
            /\ UNCHANGED <<ex, activeExecutors>>
       ELSE /\ ex' = [ex EXCEPT ![e].logs = Append(@, IF ok THEN "success" ELSE "error")]
            /\ activeExecutors' = [activeExecutors EXCEPT ![s] = NoExecutor]
            /\ UNCHANGED unhandled
    /\ UNCHANGED <<readyState, nextReq, req, pc, step, sent, automations, http,
                   settings, prsVars, llmVars, otherVars>>

\* app.delete("/api/automations/:id"); next to the response, http keeps where
\* the handler of that record's execution stood when the request was served
DeleteAutomationRoute(id) ==
    LET d == deleteAutomation(automations, id)
    IN
    /\ automations' = d.autos
    /\ http' = [route |-> "DELETE /api/automations/:id", id |-> id,
                code |-> IF d.deleted THEN 200 ELSE 404, handler |-> pc[id]]
    /\ UNCHANGED <<readyState, nextReq, req, pc, step, ex, sent, activeExecutors,
                   closeH, unhandled, settings, prsVars, llmVars, otherVars>>

\* the columns of the settings row a request may set
SettingsFields == {"selectedModel", "automationMode", "screenshotMode", "theme"}

\* a JSON value of a request body: its type and its text
JsonValues ==
    {[t |-> "string", v |-> "agent"], [t |-> "string", v |-> "dark"],
     [t |-> "number", v |-> "7"]}

\* request bodies: objects with some of the columns as members
SettingsBodies == UNION {[fs -> JsonValues] : fs \in SUBSET SettingsFields}

AgentBody == [automationMode |-> [t |-> "string", v |-> "agent"]]

\* insertSettingsSchema.partial().parse(body) succeeds: every member that
\* is present is a string
updateSettingsSchemaAccepts(body) == \A f \in DOMAIN body : body[f].t = "string"

\* the parsed body
validatedSettings(body) == [f \in DOMAIN body |-> body[f].v]

\* variant: the row is replaced by the updates
replaceSettings(row, updates) ==
    [f \in DOMAIN row |->
        IF f = "updatedAt" THEN "patch"
        ELSE IF f \in DOMAIN updates THEN updates[f] ELSE "undefined"]

\* MemStorage.updateSettings: {...this.settings, ...updates, updatedAt: new Date()}
updateSettings(row, updates) ==
    [f \in DOMAIN row |->
        IF f = "updatedAt" THEN "patch"
        ELSE IF f \in DOMAIN updates THEN updates[f] ELSE row[f]]

\* app.patch("/api/settings")
PatchSettingsRoute(body) ==
    /\ IF updateSettingsSchemaAccepts(body)
       THEN /\ settings' = updateSettings(settings, validatedSettings(body))
            /\ http' = [route |-> "PATCH /api/settings", id |-> 0, code |-> 200,
                        body |-> body, details |-> FALSE]
       ELSE /\ http' = [route |-> "PATCH /api/settings", id |-> 0, code |-> 400,
                        body |-> body, details |-> TRUE]
            /\ UNCHANGED settings
    /\ UNCHANGED <<readyState, nextReq, req, pc, step, ex, sent, automations,
                   activeExecutors, closeH, unhandled, prsVars, llmVars, otherVars>>

--------------------------------------------------------------------------
(* CustomLLMClient.createChatCompletion (lines 82-297) with                 *)
(* fetchOAuthConfigWithRetries and _spawnPythonFetchToken                   *)
(*                                                                          *)
(* The token script and the endpoint answer nondeterministically.  The      *)
(* answer a call is handling is kept in inflight[c] until the call spawns   *)
(* the script again or sends its next request.                              *)

MaxCalls == 2
MaxContentLen == 3

maxAttempts == 3
fetchRetries == 3

Calls == 1..MaxCalls

\* ---- the text of choices[0].message.content, as a sequence of pieces ----
\*   "{" "}"   braces
\*   "id"      the member "elementId": "7"
\*   "t"       a word that is not JSON
ContentPieces == {"{", "}", "id", "t"}

\* ---- JavaScript values: t is the type, v the text of a string or of a
\* number, the elements of an array ----
Undefined == [t |-> "undefined", v |-> <<>>]
Null == [t |-> "null", v |-> <<>>]
Str(chars) == [t |-> "string", v |-> chars]
Num(digits) == [t |-> "number", v |-> digits]
Arr(elems) == [t |-> "array", v |-> elems]

\* x ?? y
Coalesce(x, y) == IF x.t \in {"undefined", "null"} THEN y ELSE x

\* the value counts as true in a condition
Truthy(x) ==
    /\ x.t \notin {"undefined", "null"}
    /\ ~(x.t = "string" /\ x.v = <<>>)
    /\ ~(x.t = "number" /\ x.v = <<"0">>)

\* String(x), for the values above (arrays hold at most one element)
StringOf(x) ==
    IF x.t = "undefined" THEN <<"undefined">>
    ELSE IF x.t = "null" THEN <<"null">>
    ELSE IF x.t = "array"
    THEN (IF x.v = <<>> \/ x.v[1].t \in {"undefined", "null", "array"}
          THEN <<>> ELSE x.v[1].v)
    ELSE x.v

\* x[0]
FirstOf(x) == IF x.v = <<>> THEN Undefined ELSE x.v[1]

\* the members of a parsed object that _normalizeActionObject looks at
NoMembers ==
    [elementId |-> Undefined, id |-> Undefined, ids |-> Undefined,
     method |-> Undefined, action |-> Undefined,
     arguments |-> Undefined, argument |-> Undefined]

\* {"elementId": "7"}
IdMembers == [NoMembers EXCEPT !.elementId = Str(<<"7">>)]

\* JSON.parse(text): the parsed value, "SyntaxError" when it throws;
\* <<"n">> is the text of a number (the content was a number, not a string)
JSONParse(text) ==
    IF text = <<"{", "}">> THEN [type |-> "object", elementId |-> "none"]
    ELSE IF text = <<"{", "id", "}">> THEN [type |-> "object", elementId |-> "7"]
    ELSE IF text = <<"n">> THEN [type |-> "number"]
    ELSE [type |-> "SyntaxError"]

\* what the endpoint can put in message.content: a string, nothing (the
\* ?? chain then yields ""), or a value that is not a string
\* obj: the members the piece "id" stands for
Contents ==
    {[type |-> "string", text |-> t, obj |-> IdMembers] :
        t \in SeqsUpTo(ContentPieces, MaxContentLen)}
    \cup {[type |-> "missing", text |-> <<>>, obj |-> IdMembers],
          [type |-> "number", text |-> <<"n">>, obj |-> IdMembers],
          [type |-> "object", text |-> <<"t">>, obj |-> IdMembers]}

\* rawChoice?.message?.content ?? rawChoice?.text ?? data?.content ?? ""
messageContent(content) ==
    IF content.type = "missing"
    THEN [type |-> "string", text |-> <<>>, obj |-> content.obj] ELSE content

\* safeJSONParse(messageContent): JSON.parse first turns its argument into a
\* string (a number into its digits, an object into "[object Object]")
safeJSONParse(mc) ==
    LET v == JSONParse(mc.text)
    IN  IF v.type = "SyntaxError" THEN [type |-> "null"]
        ELSE IF v.type = "object"
        THEN [type |-> "object",
              members |-> IF v.elementId = "none" THEN NoMembers ELSE mc.obj]
        ELSE v

\* messageContent.match(/[\[{][\s\S]*[\]}]/): from the first opening brace
\* to the last closing brace after it; <<>> for null
jsonMatch(text) ==
    LET opens == {i \in 1..Len(text) : text[i] = "{"}
        closes == {i \in 1..Len(text) : text[i] = "}"}
    IN  IF opens = {} THEN <<>>
        ELSE LET first == CHOOSE i \in opens : \A k \in opens : i <= k
                 after == {j \in closes : j > first}
             IN  IF after = {} THEN <<>>
                 ELSE SubSeq(text, first, CHOOSE j \in after : \A k \in after : k <= j)

\* elementId.replace(/[\[\]\s'"]/g, "")
StripIdChars(text) == SelectSeq(text, LAMBDA ch : ch \notin {"[", "]", " ", "'"})

\* variant: the stripped text is kept even when nothing is left of it
keepStripped(stripped) == stripped

\* elementId.replace(...) || "0-1"
orDefaultId(stripped) == IF stripped = <<>> THEN <<"0-1">> ELSE stripped

\* _normalizeActionObject
normalizeActionObject(parsed) ==
    LET o == parsed.members
        rawId0 == Coalesce(o.elementId, Coalesce(o.id, Null))
        rawId == IF ~Truthy(rawId0) /\ o.ids.t = "array" /\ Len(o.ids.v) > 0
                 THEN FirstOf(o.ids) ELSE rawId0
        text == IF rawId.t = "array" THEN StringOf(FirstOf(rawId)) ELSE StringOf(rawId)
        stripped == StripIdChars(text)
        elementId == IF rawId.t \in {"undefined", "null"} THEN <<"0-1">>
                     ELSE orDefaultId(stripped)
        method == Coalesce(o.method, Coalesce(o.action, Null))
        args == Coalesce(o.arguments,
                         IF Truthy(o.argument)
                         THEN (IF o.argument.t = "array" THEN o.argument
                               ELSE Arr(<<o.argument>>))
                         ELSE Arr(<<>>))
    IN  [kind |-> "normalized",
         elementId |-> Str(elementId),
         method |-> method,
         arguments |-> IF args.t = "array" THEN args
                       ELSE Arr(SelectSeq(<<args>>, Truthy))]

\* messageContent.match is not a function
TypeErrorThrown == [kind |-> "TypeError"]

\* variant: no default, the parse failure is thrown
ThrowNoStructuredData == [kind |-> "TypeError"]

\* lines 239-245
SafeDefaultAction ==
    [kind |-> "default", elementId |-> Str(<<"0-1">>), method |-> Null,
     arguments |-> Arr(<<>>)]

\* lines 249-255
LLMResponseWithDefaults ==
    [kind |-> "llmResponse", elementId |-> Str(<<"0-1">>), method |-> Null,
     arguments |-> Arr(<<>>)]

\* lines 208-255: what the try block does with the data of a 2xx answer:
\* the value it returns, or TypeErrorThrown when .match is called on a
\* content that is not a string
handleData(content, schema) ==
    LET mc == messageContent(content)
        parsed == safeJSONParse(mc)
    IN  IF ~schema THEN LLMResponseWithDefaults
        ELSE IF parsed.type = "object" THEN normalizeActionObject(parsed)
        ELSE IF mc.type # "string" THEN TypeErrorThrown
        ELSE LET m == jsonMatch(mc.text)
                 extracted == safeJSONParse([mc EXCEPT !.text = m])
             IN  IF m # <<>> /\ extracted.type = "object"
                 THEN normalizeActionObject(extracted)
                 ELSE SafeDefaultAction

\* ---- what the endpoint answers ----
\* 2xx with a JSON body, 2xx with a body that is not JSON, 401, another
\* status (its body may contain the word Unauthorized), a network error, the
\* 20 s timeout
FailureAnswers ==
    {[status |-> "2xx-invalid-json", unauthorized |-> FALSE],
     [status |-> "401", unauthorized |-> TRUE],
     [status |-> "403", unauthorized |-> TRUE],
     [status |-> "500", unauthorized |-> FALSE],
     [status |-> "network-error", unauthorized |-> FALSE],
     [status |-> "timeout", unauthorized |-> FALSE]}

OkAnswers == {[status |-> "2xx", content |-> k] : k \in Contents}

NoAnswer == [status |-> "none"]

\* ---- what the token script answers ----
\* token: exit 0 and JSON with access_token; the others make
\* _spawnPythonFetchToken reject or fetchOAuthConfigWithRetries throw
ScriptAnswers == {"token", "exit-nonzero", "not-json", "no-access_token"}

\* the locals of one call (attempt, the i of the fetch loop, the message of
\* the last error) and what it has done so far: requests sent, refreshes
\* (calls of fetchOAuthConfigWithRetries after Unauthorized),
\* the token of the last request, whether every answer so far was a 401
NewCall ==
    [schema |-> FALSE, attempt |-> 0, requests |-> 0, refreshes |-> 0,
     fetchI |-> 0, sentToken |-> 0, msg |-> "none", only401 |-> TRUE]

\* doRequestOnce(this.oauthToken) at the top of the retry loop
sendRequest(k, token) ==
    [k EXCEPT !.attempt = @ + 1, !.requests = @ + 1, !.sentToken = token, !.fetchI = 0]

\* _spawnPythonFetchToken inside fetchOAuthConfigWithRetries, round i
spawnScript(k, i) == [k EXCEPT !.fetchI = i]

\* the catch block refreshes the token when the message says Unauthorized
refreshOn(answer) == answer.unauthorized

\* variant: one retry only
gaveUpAfterOneRetry(attempt) == attempt >= 2

\* the loop gives up once this many attempts are used
attemptsExhausted(attempt) == attempt >= maxAttempts

\* variant: any JSON output counts as a token response
anyJSONAccepted(out) == out \in {"token", "no-access_token"}

\* fetchOAuthConfigWithRetries returns the script's output only when the
\* process exited 0, printed JSON and the JSON has an access_token
hasAccessToken(out) == out = "token"

\* createChatCompletion is called
StartCall(c, schema, messagesOk) ==
    /\ cpc[c] = "idle"
    /\ IF ~messagesOk
       THEN /\ cpc' = [cpc EXCEPT ![c] = "thrown"]
            /\ result' = [result EXCEPT ![c] = [kind |-> "Error", message |-> "messages"]]
            /\ call' = [call EXCEPT ![c] = [NewCall EXCEPT !.schema = schema]]
       ELSE IF oauthToken = 0
       THEN /\ cpc' = [cpc EXCEPT ![c] = "token"]
            /\ call' = [call EXCEPT ![c] = spawnScript([NewCall EXCEPT !.schema = schema], 0)]
            /\ UNCHANGED result
       ELSE /\ cpc' = [cpc EXCEPT ![c] = "request"]
            /\ call' = [call EXCEPT ![c] =
                           sendRequest([NewCall EXCEPT !.schema = schema], oauthToken)]
            /\ UNCHANGED result
    /\ UNCHANGED <<oauthToken, inflight, srvVars, prsVars, otherVars>>

\* the token script, spawned by the first-use fetch, ends
TokenAnswer(c, out) ==
    /\ cpc[c] = "token"
    /\ inflight' = [inflight EXCEPT ![c] = [status |-> "script", out |-> out]]
    /\ IF hasAccessToken(out)
       THEN /\ oauthToken' = oauthToken + 1
            /\ cpc' = [cpc EXCEPT ![c] = "request"]
            /\ call' = [call EXCEPT ![c] = sendRequest(@, oauthToken + 1)]
            /\ UNCHANGED result
       ELSE IF call[c].fetchI = fetchRetries - 1
       THEN /\ cpc' = [cpc EXCEPT ![c] = "thrown"]
            /\ result' = [result EXCEPT ![c] = [kind |-> "Error", message |-> "token"]]
            /\ UNCHANGED <<oauthToken, call>>
       ELSE /\ cpc' = [cpc EXCEPT ![c] = "tokenSleep"]
            /\ UNCHANGED <<oauthToken, call, result>>
    /\ UNCHANGED <<srvVars, prsVars, otherVars>>

\* sleep(500 * (i + 1)) is over: the script is spawned again
TokenSleepDone(c) ==
    /\ cpc[c] = "tokenSleep"
    /\ cpc' = [cpc EXCEPT ![c] = "token"]
    /\ call' = [call EXCEPT ![c] = spawnScript(@, @.fetchI + 1)]
    /\ inflight' = [inflight EXCEPT ![c] = NoAnswer]
    /\ UNCHANGED <<oauthToken, result, srvVars, prsVars, otherVars>>

\* lines 286-292: give up or back off
afterFailure(c, k, msg) ==
    IF attemptsExhausted(k.attempt)
    THEN /\ cpc' = [cpc EXCEPT ![c] = "thrown"]
         /\ result' = [result EXCEPT ![c] =
                          [kind |-> "Error", message |-> "Max retries exceeded"]]
         /\ call' = [call EXCEPT ![c] = k]
    ELSE /\ cpc' = [cpc EXCEPT ![c] = "backoff"]
         /\ call' = [call EXCEPT ![c] = k]
         /\ UNCHANGED result

\* the endpoint answers the request (or the request fails)
HttpAnswer(c, answer) ==
    /\ cpc[c] = "request"
    /\ inflight' = [inflight EXCEPT ![c] = answer]
    /\ LET out == IF answer.status = "2xx"
                  THEN handleData(answer.content, call[c].schema)
                  ELSE TypeErrorThrown
           failed == answer.status # "2xx" \/ out = TypeErrorThrown
           unauthorized == answer.status # "2xx" /\ refreshOn(answer)
           k == [call[c] EXCEPT !.msg = IF answer.status = "2xx" THEN "TypeError"
                                        ELSE answer.status,
                                !.only401 = @ /\ answer.status = "401"]
       IN  IF ~failed
           THEN /\ cpc' = [cpc EXCEPT ![c] = "returned"]
                /\ result' = [result EXCEPT ![c] = out]
                /\ call' = [call EXCEPT ![c].only401 = FALSE]
           ELSE IF unauthorized
           THEN /\ cpc' = [cpc EXCEPT ![c] = "refresh"]
                /\ call' = [call EXCEPT ![c] =
                               spawnScript([k EXCEPT !.refreshes = @ + 1], 0)]
                /\ UNCHANGED result
           ELSE afterFailure(c, k, k.msg)
    /\ UNCHANGED <<oauthToken, srvVars, prsVars, otherVars>>

\* the token script, spawned by the refresh after Unauthorized, ends
RefreshAnswer(c, out) ==
    /\ cpc[c] = "refresh"
    /\ inflight' = [inflight EXCEPT ![c] = [status |-> "script", out |-> out]]
    /\ IF hasAccessToken(out)
       THEN /\ oauthToken' = oauthToken + 1
            /\ afterFailure(c, call[c], call[c].msg)
       ELSE IF call[c].fetchI = fetchRetries - 1
       THEN /\ afterFailure(c, call[c], call[c].msg)
            /\ UNCHANGED oauthToken
       ELSE /\ cpc' = [cpc EXCEPT ![c] = "refreshSleep"]
            /\ UNCHANGED <<oauthToken, call, result>>
    /\ UNCHANGED <<srvVars, prsVars, otherVars>>

\* sleep(500 * (i + 1)) inside the refresh is over
RefreshSleepDone(c) ==
    /\ cpc[c] = "refreshSleep"
    /\ cpc' = [cpc EXCEPT ![c] = "refresh"]
    /\ call' = [call EXCEPT ![c] = spawnScript(@, @.fetchI + 1)]
    /\ inflight' = [inflight EXCEPT ![c] = NoAnswer]
    /\ UNCHANGED <<oauthToken, result, srvVars, prsVars, otherVars>>

\* sleep(backoff) is over: the next attempt
BackoffDone(c) ==
    /\ cpc[c] = "backoff"
    /\ cpc' = [cpc EXCEPT ![c] = "request"]
    /\ call' = [call EXCEPT ![c] = sendRequest(@, oauthToken)]
    /\ inflight' = [inflight EXCEPT ![c] = NoAnswer]
    /\ UNCHANGED <<oauthToken, result, srvVars, prsVars, otherVars>>

\* the caller awaiting createChatCompletion resumes with the value or the
\* error; nothing of the call is left
CallSettled(c) ==
    /\ cpc[c] \in {"returned", "thrown"}
    /\ cpc' = [cpc EXCEPT ![c] = "settled"]
    /\ call' = [call EXCEPT ![c] = NewCall]
    /\ inflight' = [inflight EXCEPT ![c] = NoAnswer]
    /\ result' = [result EXCEPT ![c] = [kind |-> "none"]]
    /\ UNCHANGED <<oauthToken, srvVars, prsVars, otherVars>>

--------------------------------------------------------------------------
(* The second CustomLLMClient of the file (lines 444-957): one spawn per    *)
(* token fetch, a retries counter that only Unauthorized decrements.  What  *)
(* the call returns is left opaque here.                                    *)

secondRetries == 3

\* requests one call may send in the model
MaxSends == 4

SecondScriptAnswers == {"token", "exit-nonzero", "not-json", "error-json"}

\* 2xx-null: a 2xx whose body is the JSON text null, so that data.content
\* throws a TypeError inside the try block
SecondAnswers == {"2xx", "2xx-invalid-json", "2xx-null", "401", "500", "network-error"}

SecondNewCall == [retries |-> secondRetries, requests |-> 0, sentToken |-> 0, msg |-> "none"]

\* makeRequest() at the top of the while loop
makeRequest(k, token) == [k EXCEPT !.requests = @ + 1, !.sentToken = token]

\* fetchOAuthConfig resolves with the parsed output unless the process
\* exited non-zero, printed no JSON, or printed JSON with an error member
fetchResolves(out) == out = "token"

\* createChatCompletion is called
SecondStartCall(c, messagesOk) ==
    /\ cpc[c] = "idle"
    /\ IF ~messagesOk
       THEN /\ cpc' = [cpc EXCEPT ![c] = "thrown"]
            /\ result' = [result EXCEPT ![c] = [kind |-> "Error", message |-> "messages"]]
            /\ call' = [call EXCEPT ![c] = SecondNewCall]
       ELSE IF oauthToken = 0
       THEN /\ cpc' = [cpc EXCEPT ![c] = "token"]
            /\ call' = [call EXCEPT ![c] = SecondNewCall]
            /\ UNCHANGED result
       ELSE /\ cpc' = [cpc EXCEPT ![c] = "request"]
            /\ call' = [call EXCEPT ![c] = makeRequest(SecondNewCall, oauthToken)]
            /\ UNCHANGED result
    /\ UNCHANGED <<oauthToken, inflight, srvVars, prsVars, otherVars>>

\* the token script of the first-use fetch ends
SecondTokenAnswer(c, out) ==
    /\ cpc[c] = "token"
    /\ inflight' = [inflight EXCEPT ![c] = [status |-> "script", out |-> out]]
    /\ IF fetchResolves(out)
       THEN /\ oauthToken' = oauthToken + 1
            /\ cpc' = [cpc EXCEPT ![c] = "request"]
            /\ call' = [call EXCEPT ![c] = makeRequest(@, oauthToken + 1)]
            /\ UNCHANGED result
       ELSE /\ cpc' = [cpc EXCEPT ![c] = "thrown"]
            /\ result' = [result EXCEPT ![c] = [kind |-> "Error", message |-> "token"]]
            /\ UNCHANGED <<oauthToken, call>>
    /\ UNCHANGED <<srvVars, prsVars, otherVars>>

\* the request of makeRequest settles; lines 645-953
SecondHttpAnswer(c, answer) ==
    /\ cpc[c] = "request"
    /\ inflight' = [inflight EXCEPT ![c] = [status |-> answer]]
    /\ IF answer = "2xx"
       THEN /\ cpc' = [cpc EXCEPT ![c] = "returned"]
            /\ result' = [result EXCEPT ![c] = [kind |-> "value"]]
            /\ UNCHANGED <<oauthToken, call>>
       ELSE IF answer = "401"
       THEN /\ oauthToken' = 0
            /\ call' = [call EXCEPT ![c].retries = @ - 1, ![c].msg = answer]
            /\ IF call[c].retries - 1 = 0
               THEN /\ cpc' = [cpc EXCEPT ![c] = "thrown"]
                    /\ result' = [result EXCEPT ![c] =
                                     [kind |-> "Error", message |-> "Unauthorized"]]
               ELSE /\ cpc' = [cpc EXCEPT ![c] = "refresh"]
                    /\ UNCHANGED result
       ELSE IF call[c].retries <= 0
       THEN /\ cpc' = [cpc EXCEPT ![c] = "thrown"]
            /\ result' = [result EXCEPT ![c] = [kind |-> "Error", message |-> answer]]
            /\ call' = [call EXCEPT ![c].msg = answer]
            /\ UNCHANGED oauthToken
       ELSE \* back to the top of the loop: the request is sent again at once
            /\ call[c].requests < MaxSends
            /\ call' = [call EXCEPT ![c] = makeRequest([@ EXCEPT !.msg = answer], oauthToken)]
            /\ UNCHANGED <<cpc, result, oauthToken>>
    /\ UNCHANGED <<srvVars, prsVars, otherVars>>

\* the token script of the refresh after Unauthorized ends
SecondRefreshAnswer(c, out) ==
    /\ cpc[c] = "refresh"
    /\ inflight' = [inflight EXCEPT ![c] = [status |-> "script", out |-> out]]
    /\ IF fetchResolves(out)
       THEN /\ oauthToken' = oauthToken + 1
            /\ cpc' = [cpc EXCEPT ![c] = "request"]
            /\ call' = [call EXCEPT ![c] = makeRequest(@, oauthToken + 1)]
            /\ UNCHANGED result
       ELSE /\ cpc' = [cpc EXCEPT ![c] = "thrown"]
            /\ result' = [result EXCEPT ![c] = [kind |-> "Error", message |-> "token"]]
            /\ UNCHANGED <<oauthToken, call>>
    /\ UNCHANGED <<srvVars, prsVars, otherVars>>

\* the caller resumes with the value or the error
SecondCallSettled(c) ==
    /\ cpc[c] \in {"returned", "thrown"}
    /\ cpc' = [cpc EXCEPT ![c] = "settled"]
    /\ call' = [call EXCEPT ![c] = SecondNewCall]
    /\ inflight' = [inflight EXCEPT ![c] = NoAnswer]
    /\ result' = [result EXCEPT ![c] = [kind |-> "none"]]
    /\ UNCHANGED <<oauthToken, srvVars, prsVars, otherVars>>

--------------------------------------------------------------------------
(* SpecParse: execute(prompt) on an initialized executor, up to the point  *)
(* where the sub-steps are known, for every prompt of a bounded set        *)

MaxPromptWords == 4

PromptWords == {"click", "type", "on", "a"}
NavClauses == {<<>>, <<"go", "to", "example.com">>, <<"open", "example.com">>}

\* words before the navigation clause, the clause, words after it
PromptInputs ==
    UNION {{Slice(w, 1, i) \o nav \o Slice(w, i + 1, Len(w)) :
               i \in 0..Len(w), nav \in NavClauses} :
           w \in SeqsUpTo(PromptWords, MaxPromptWords)} \ {<<>>}

\* execute, lines 99-108: the navigation, if the prompt names a URL
ExecNavigate ==
    /\ pPc = "start"
    /\ IF urlMatch(pPrompt) # 0
       THEN /\ pGotos' = Append(pGotos, NavUrl(pPrompt))
            /\ pPc' = "goto"
            /\ UNCHANGED pSteps
       ELSE /\ pSteps' = parseMultiStepPrompt(pPrompt)
            /\ pPc' = "parsed"
            /\ UNCHANGED pGotos
    /\ UNCHANGED <<pPrompt, pActs, pResults, pRet, srvVars, llmVars, otherVars>>

\* execute, line 111: page.goto has returned
ExecParse ==
    /\ pPc = "goto"
    /\ pSteps' = parseMultiStepPrompt(pPrompt)
    /\ pPc' = "parsed"
    /\ UNCHANGED <<pPrompt, pGotos, pActs, pResults, pRet, srvVars, llmVars, otherVars>>

\* ---- execute after the sub-steps are known ----
NotReturned == [kind |-> "none", success |-> FALSE, result |-> 0, error |-> 0]

\* variant: the first step's result is returned
firstResult(results) == results[1]

\* results[results.length - 1]
lastResult(results) == results[Len(results)]

\* execute's catch block: {success: false, error: error.message}; the
\* message is identified by the SDK call that threw (0: page.goto)
executeCaught(n) == [kind |-> "returned", success |-> FALSE, result |-> 0, error |-> n + 1]

\* page.goto rejects
ExecGotoFails ==
    /\ pPc = "goto"
    /\ pRet' = executeCaught(0)
    /\ pPc' = "returned"
    /\ UNCHANGED <<pPrompt, pGotos, pSteps, pActs, pResults, srvVars, llmVars, otherVars>>

\* lines 113-121 and 142-145: the first step, or the whole prompt, goes to act
ExecAct ==
    /\ pPc = "parsed"
    /\ pActs' = Append(pActs, IF Len(pSteps) > 1 THEN pSteps[1] ELSE pPrompt)
    /\ pPc' = "act"
    /\ UNCHANGED <<pPrompt, pGotos, pSteps, pResults, pRet, srvVars, llmVars, otherVars>>

\* stagehand.act settles; its value is identified by the number of the act
ExecActReturn(ok) ==
    /\ pPc = "act"
    /\ IF ~ok
       THEN /\ pRet' = executeCaught(Len(pActs))
            /\ pPc' = "returned"
            /\ UNCHANGED pResults
       ELSE LET results == Append(pResults, Len(pActs))
            IN  /\ pResults' = results
                /\ IF Len(pSteps) > 1 /\ Len(pActs) < Len(pSteps)
                   THEN pPc' = "delay" /\ UNCHANGED pRet
                   ELSE /\ pPc' = "returned"
                        /\ pRet' = [kind |-> "returned", success |-> TRUE,
                                    result |-> lastResult(results), error |-> 0]
    /\ UNCHANGED <<pPrompt, pGotos, pSteps, pActs, srvVars, llmVars, otherVars>>

\* the 1000 ms between two steps are over: the next step goes to act
ExecDelayElapsed ==
    /\ pPc = "delay"
    /\ pActs' = Append(pActs, pSteps[Len(pActs) + 1])
    /\ pPc' = "act"
    /\ UNCHANGED <<pPrompt, pGotos, pSteps, pResults, pRet, srvVars, llmVars, otherVars>>

--------------------------------------------------------------------------
(* AutomationExecutor as a class: initialize, execute, executeAgent,       *)
(* extract and observe called one after the other on one executor, with    *)
(* prompts that have no navigation clause and a single step                *)

MaxMethodCalls == 3

NoReturn == [kind |-> "none", method |-> "none", success |-> FALSE, error |-> "none"]

\* a method's return value {success, error, ...}
Returns(name, success, error) ==
    [kind |-> "returned", method |-> name, success |-> success, error |-> error]

Throws(name, error) ==
    [kind |-> "thrown", method |-> name, success |-> FALSE, error |-> error]

\* a method is called and runs up to its first await or its return
MethodStart(name, guardHolds, sdkCall) ==
    /\ mpc = "idle"
    /\ ncalls < MaxMethodCalls
    /\ ncalls' = ncalls + 1
    /\ IF ~guardHolds
       THEN /\ ret' = Returns(name, FALSE, "Automation not initialized")
            /\ UNCHANGED <<mpc, sdk>>
       ELSE /\ sdk' = Append(sdk, sdkCall)
            /\ mpc' = sdkCall
            /\ ret' = NoReturn
    /\ UNCHANGED <<useCustomLLM, executor, initialized, srvVars, prsVars, llmVars, cliVars, pageVars>>

\* the awaited SDK call of a method settles and the method returns
MethodDone(name, sdkCall, ok) ==
    /\ mpc = sdkCall
    /\ mpc' = "idle"
    /\ ret' = IF ok THEN Returns(name, TRUE, "undefined")
              ELSE Returns(name, FALSE, "message")
    /\ UNCHANGED <<useCustomLLM, executor, sdk, initialized, ncalls, srvVars, prsVars, llmVars, cliVars, pageVars>>

\* the model option of new Stagehand({...}): a vendor-keyed model string
stagehandModel(model) ==
    IF model = "openai" THEN "openai/gpt-4o-mini"
    ELSE IF model = "anthropic" THEN "anthropic/claude-3-5-sonnet-20241022"
    ELSE "google/gemini-2.0-flash-exp"

\* initialize(model)
InitializeCall(model) ==
    /\ mpc = "idle"
    /\ ncalls < MaxMethodCalls
    /\ ncalls' = ncalls + 1
    /\ IF model \notin ApiKeyEnv
       THEN /\ ret' = Throws("initialize", "API key not found")
            /\ UNCHANGED <<executor, mpc, sdk>>
       ELSE /\ executor' = [executor EXCEPT !.stagehand = TRUE,
                                            !.llm = stagehandModel(model)]
            /\ sdk' = Append(sdk, "init")
            /\ mpc' = "init"
            /\ ret' = NoReturn
    /\ UNCHANGED <<useCustomLLM, initialized, srvVars, prsVars, llmVars, cliVars, pageVars>>

\* stagehand.init() settles
InitializeDone(ok) ==
    /\ mpc = "init"
    /\ mpc' = "idle"
    /\ IF ok
       THEN /\ executor' = [executor EXCEPT !.page = TRUE]
            /\ initialized' = TRUE
            /\ ret' = [kind |-> "returned", method |-> "initialize",
                       success |-> TRUE, error |-> "undefined"]
       ELSE /\ ret' = Throws("initialize", "message")
            /\ UNCHANGED <<executor, initialized>>
    /\ UNCHANGED <<useCustomLLM, sdk, ncalls, srvVars, prsVars, llmVars, cliVars, pageVars>>

\* execute(prompt)
ExecuteCall == MethodStart("execute", executor.stagehand /\ executor.page, "act")
ExecuteDone(ok) == MethodDone("execute", "act", ok)

\* executeAgent(prompt, model)
ExecuteAgentCall ==
    MethodStart("executeAgent", executor.stagehand /\ executor.page, "agent.execute")
ExecuteAgentDone(ok) == MethodDone("executeAgent", "agent.execute", ok)

\* extract(prompt, instruction, schema): act first when a prompt is given
ExtractCall(withPrompt) ==
    MethodStart("extract", executor.stagehand,
                IF withPrompt THEN "extract:act" ELSE "extract")

\* the act of extract settles
ExtractActDone(ok) ==
    /\ mpc = "extract:act"
    /\ IF ok
       THEN /\ sdk' = Append(sdk, "extract")
            /\ mpc' = "extract"
            /\ UNCHANGED ret
       ELSE /\ mpc' = "idle"
            /\ ret' = Returns("extract", FALSE, "message")
            /\ UNCHANGED sdk
    /\ UNCHANGED <<useCustomLLM, executor, initialized, ncalls, srvVars, prsVars, llmVars, cliVars, pageVars>>

ExtractDone(ok) == MethodDone("extract", "extract", ok)

\* observe(instruction)
ObserveCall == MethodStart("observe", executor.stagehand, "observe")
ObserveDone(ok) == MethodDone("observe", "observe", ok)

\* new AutomationExecutor
ExecutorInit ==
    /\ executor = [stagehand |-> FALSE, page |-> FALSE, llm |-> "none"]
    /\ mpc = "idle"
    /\ ret = NoReturn
    /\ sdk = <<>>
    /\ initialized = FALSE
    /\ ncalls = 0

--------------------------------------------------------------------------
(* useWebSocket: the hook as a component uses it (mount, unmount, and the  *)
(* disconnect function it returns) and the events of its socket            *)

MaxCount == 3

\* counters stop at MaxCount
Counted(n) == IF n < MaxCount THEN n + 1 ELSE n

\* variant: onclose schedules nothing
keepTimer(pending) == pending

\* onclose: reconnectTimeout.current = setTimeout(connect, 3000)
scheduleReconnect(pending) == TRUE

\* connect(): a new WebSocket replaces ws.current
connect ==
    /\ sock' = "CONNECTING"
    /\ attempts' = Counted(attempts)

\* the effect of useEffect runs
Mount ==
    /\ mounted = "no"
    /\ mounted' = "yes"
    /\ connect
    /\ UNCHANGED <<isConnected, timer, closeEvents, delivered, srvVars, prsVars, llmVars, apiVars, pageVars>>

\* onopen
SocketOpens ==
    /\ sock = "CONNECTING"
    /\ sock' = "OPEN"
    /\ isConnected' = TRUE
    /\ UNCHANGED <<mounted, timer, attempts, closeEvents, delivered, srvVars, prsVars, llmVars, apiVars, pageVars>>

\* onmessage: JSON.parse, then options.onMessage; a parse error is logged
MessageArrives(parses) ==
    /\ sock = "OPEN"
    /\ delivered' = IF parses THEN Counted(delivered) ELSE delivered
    /\ UNCHANGED <<mounted, sock, isConnected, timer, attempts, closeEvents, srvVars, prsVars, llmVars, apiVars, pageVars>>

\* onclose: the connection failed, the server dropped it, or close() is done
SocketCloses ==
    /\ sock \in {"CONNECTING", "OPEN", "CLOSING"}
    /\ sock' = "CLOSED"
    /\ isConnected' = FALSE
    /\ timer' = scheduleReconnect(timer)
    /\ closeEvents' = Counted(closeEvents)
    /\ UNCHANGED <<mounted, attempts, delivered, srvVars, prsVars, llmVars, apiVars, pageVars>>

\* the 3000 ms are over
TimerFires ==
    /\ timer
    /\ timer' = FALSE
    /\ connect
    /\ UNCHANGED <<mounted, isConnected, closeEvents, delivered, srvVars, prsVars, llmVars, apiVars, pageVars>>

\* disconnect(): clearTimeout, then ws.current?.close()
disconnect ==
    /\ timer' = FALSE
    /\ sock' = IF sock \in {"CONNECTING", "OPEN"} THEN "CLOSING" ELSE sock

\* the component calls the disconnect function the hook returned
DisconnectCall ==
    /\ mounted = "yes"
    /\ disconnect
    /\ UNCHANGED <<mounted, isConnected, attempts, closeEvents, delivered, srvVars, prsVars, llmVars, apiVars, pageVars>>

\* the cleanup of useEffect
Unmount ==
    /\ mounted = "yes"
    /\ mounted' = "unmounted"
    /\ disconnect
    /\ UNCHANGED <<isConnected, attempts, closeEvents, delivered, srvVars, prsVars, llmVars, apiVars, pageVars>>

\* before the component is mounted
ClientInit ==
    /\ mounted = "no"
    /\ sock = "none"
    /\ isConnected = FALSE
    /\ timer = FALSE
    /\ attempts = 0
    /\ closeEvents = 0
    /\ delivered = 0

--------------------------------------------------------------------------
(* Home (WorkflowList.tsx): isExecuting, handleExecute, handleRerun and    *)
(* the onMessage handler, on top of the hook.  The server is the peer of   *)
(* the socket: it answers a request with execution_started and later with  *)
(* a terminal event, and what it sends after the socket closed is dropped. *)

\* requests the page may have outstanding on one connection
MaxOutstanding == 2

\* handleExecute(prompt) with a model selected: it goes on whenever the hook
\* says connected, whatever isExecuting is; setIsExecuting(true), then
\* send(), which puts the request on the socket only when
\* ws.current.readyState is OPEN
handleExecute ==
    /\ isConnected
    /\ awaitingStart + awaitingEnd < MaxOutstanding
    /\ isExecuting' = TRUE
    /\ awaitingStart' = IF sock = "OPEN" THEN awaitingStart + 1 ELSE awaitingStart
    /\ UNCHANGED <<awaitingEnd, cliVars, srvVars, prsVars, llmVars, apiVars>>

\* SearchInput.handleSubmit with a non-blank prompt
SubmitPrompt ==
    /\ mounted = "yes"
    /\ ~isExecuting
    /\ handleExecute

\* HistorySidebar calls onRerun(id) for an item of the history or the cache
handleRerun ==
    /\ mounted = "yes"
    /\ handleExecute

\* onmessage hands execution_started to the page
StartedArrives ==
    /\ sock = "OPEN"
    /\ awaitingStart > 0
    /\ awaitingStart' = awaitingStart - 1
    /\ awaitingEnd' = awaitingEnd + 1
    /\ isExecuting' = TRUE
    /\ delivered' = Counted(delivered)
    /\ UNCHANGED <<mounted, sock, isConnected, timer, attempts, closeEvents,
                   srvVars, prsVars, llmVars, apiVars>>

\* onmessage hands execution_completed or execution_error to the page
TerminalArrives ==
    /\ sock = "OPEN"
    /\ awaitingEnd > 0
    /\ awaitingEnd' = awaitingEnd - 1
    /\ isExecuting' = FALSE
    /\ delivered' = Counted(delivered)
    /\ UNCHANGED <<awaitingStart, mounted, sock, isConnected, timer, attempts,
                   closeEvents, srvVars, prsVars, llmVars, apiVars>>

\* the peer starts the closing handshake: readyState is CLOSING until the
\* close event
ClosingStarts ==
    /\ sock = "OPEN"
    /\ sock' = "CLOSING"
    /\ UNCHANGED <<mounted, isConnected, timer, attempts, closeEvents, delivered,
                   pageVars, srvVars, prsVars, llmVars, apiVars>>

\* onclose while the page is shown: the hook's state changes as in
\* SocketCloses, the page's onMessage is not called, and the events of the
\* requests sent on this connection will not arrive
ConnectionLost ==
    /\ sock \in {"CONNECTING", "OPEN", "CLOSING"}
    /\ sock' = "CLOSED"
    /\ isConnected' = FALSE
    /\ timer' = scheduleReconnect(timer)
    /\ closeEvents' = Counted(closeEvents)
    /\ awaitingStart' = 0
    /\ awaitingEnd' = 0
    /\ UNCHANGED <<isExecuting, mounted, attempts, delivered, srvVars, prsVars,
                   llmVars, apiVars>>

\* the page before anything was executed
PageInit ==
    /\ isExecuting = FALSE
    /\ awaitingStart = 0
    /\ awaitingEnd = 0

OtherIdle == ExecutorInit /\ useCustomLLM = FALSE /\ ClientInit /\ PageInit

--------------------------------------------------------------------------
(* Specifications                                                           *)

SrvInit ==
    /\ readyState = [s \in Sockets |-> "NONE"]
    /\ nextReq = 1
    /\ req = [r \in Reqs |-> [sock |-> "none", msg |-> NoMessage, mode |-> "act"]]
    /\ pc = [r \in Reqs |-> "none"]
    /\ step = [r \in Reqs |-> 0]
    /\ ex = [r \in Reqs |-> NewExecutor]
    /\ sent = [r \in Reqs |-> <<>>]
    /\ automations = [i \in {} |-> 0]
    /\ activeExecutors = [s \in Sockets |-> NoExecutor]
    /\ closeH = [s \in Sockets |-> [pc |-> "idle", ex |-> NoExecutor]]
    /\ unhandled = {}
    /\ http = [route |-> "none", id |-> 0, code |-> 0]
    /\ settings = [selectedModel |-> "openai", screenshotMode |-> "none",
                   theme |-> "light", automationMode |-> "undefined",
                   updatedAt |-> "constructor"]

PrsIdle ==
    /\ pPrompt = <<>>
    /\ pPc = "off"
    /\ pGotos = <<>>
    /\ pSteps = <<>>
    /\ pActs = <<>>
    /\ pResults = <<>>
    /\ pRet = NotReturned

LlmIdle ==
    /\ oauthToken = 0
    /\ cpc = <<>>
    /\ call = <<>>
    /\ inflight = <<>>
    /\ result = <<>>

SrvIdle == SrvInit

Init == SrvInit /\ PrsIdle /\ LlmIdle /\ OtherIdle

\* ---- SpecLLM ----
LlmInit ==
    /\ oauthToken = 0
    /\ cpc = [c \in Calls |-> "idle"]
    /\ call = [c \in Calls |-> NewCall]
    /\ inflight = [c \in Calls |-> NoAnswer]
    /\ result = [c \in Calls |-> [kind |-> "none"]]

InitLLM == SrvIdle /\ PrsIdle /\ LlmInit /\ OtherIdle

\* the calls of this specification follow one another
NoCallRunning == \A c \in Calls : cpc[c] \in {"idle", "settled"}

NextCall(c, schema, messagesOk) ==
    /\ NoCallRunning
    /\ \A d \in 1..(c - 1) : cpc[d] # "idle"
    /\ StartCall(c, schema, messagesOk)

NextLLM ==
    \/ \E c \in Calls, schema \in BOOLEAN, messagesOk \in BOOLEAN :
          NextCall(c, schema, messagesOk)
    \/ \E c \in Calls, out \in ScriptAnswers : TokenAnswer(c, out)
    \/ \E c \in Calls : TokenSleepDone(c)
    \/ \E c \in Calls, answer \in OkAnswers \cup FailureAnswers : HttpAnswer(c, answer)
    \/ \E c \in Calls, out \in ScriptAnswers : RefreshAnswer(c, out)
    \/ \E c \in Calls : RefreshSleepDone(c)
    \/ \E c \in Calls : BackoffDone(c)
    \/ \E c \in Calls : CallSettled(c)

SpecLLM == InitLLM /\ [][NextLLM]_vars

\* ---- SpecOverlap: createChatCompletion called again on the same client
\* while an earlier call is still awaiting (the agent and the act handler
\* share one client); plain calls, and an endpoint that answers with a
\* completion, 401 or 500 ----
OverlapCalls == {c \in Calls : c <= 2}

OverlapAnswers ==
    {a \in OkAnswers : a.content = CHOOSE k \in Contents : TRUE}
    \cup {a \in FailureAnswers : a.status \in {"401", "500"}}

OverlapScriptAnswers == {"token", "exit-nonzero"}

NextOverlap ==
    \/ \E c \in OverlapCalls : StartCall(c, FALSE, TRUE)
    \/ \E c \in OverlapCalls, out \in OverlapScriptAnswers : TokenAnswer(c, out)
    \/ \E c \in OverlapCalls : TokenSleepDone(c)
    \/ \E c \in OverlapCalls, answer \in OverlapAnswers : HttpAnswer(c, answer)
    \/ \E c \in OverlapCalls, out \in OverlapScriptAnswers : RefreshAnswer(c, out)
    \/ \E c \in OverlapCalls : RefreshSleepDone(c)
    \/ \E c \in OverlapCalls : BackoffDone(c)
    \/ \E c \in OverlapCalls : CallSettled(c)

SpecOverlap == InitLLM /\ [][NextOverlap]_vars

\* ---- SpecSecond: calls of the second createChatCompletion ----
SecondInit ==
    /\ oauthToken = 0
    /\ cpc = [c \in Calls |-> "idle"]
    /\ call = [c \in Calls |-> SecondNewCall]
    /\ inflight = [c \in Calls |-> NoAnswer]
    /\ result = [c \in Calls |-> [kind |-> "none"]]

InitSecond == SrvIdle /\ PrsIdle /\ SecondInit /\ OtherIdle

SecondNextCall(c, messagesOk) ==
    /\ NoCallRunning
    /\ \A d \in 1..(c - 1) : cpc[d] # "idle"
    /\ SecondStartCall(c, messagesOk)

NextSecond ==
    \/ \E c \in Calls, messagesOk \in BOOLEAN : SecondNextCall(c, messagesOk)
    \/ \E c \in Calls, out \in SecondScriptAnswers : SecondTokenAnswer(c, out)
    \/ \E c \in Calls, answer \in SecondAnswers : SecondHttpAnswer(c, answer)
    \/ \E c \in Calls, out \in SecondScriptAnswers : SecondRefreshAnswer(c, out)
    \/ \E c \in Calls : SecondCallSettled(c)

SpecSecond == InitSecond /\ [][NextSecond]_vars

\* ---- SpecExecute: execute(prompt) to its return, for prompts that are
\* an optional navigation clause followed by words ----
ExecutePrompts ==
    {nav \o w : nav \in NavClauses, w \in SeqsUpTo(PromptWords, MaxPromptWords)} \ {<<>>}

ExecuteInit ==
    /\ pPrompt \in ExecutePrompts
    /\ pPc = "start"
    /\ pGotos = <<>>
    /\ pSteps = <<>>
    /\ pActs = <<>>
    /\ pResults = <<>>
    /\ pRet = NotReturned

InitExecute == SrvIdle /\ ExecuteInit /\ LlmIdle /\ OtherIdle

NextExecute ==
    \/ ExecNavigate
    \/ ExecParse
    \/ ExecGotoFails
    \/ ExecAct
    \/ \E ok \in BOOLEAN : ExecActReturn(ok)
    \/ ExecDelayElapsed

SpecExecute == InitExecute /\ [][NextExecute]_vars

\* ---- SpecSettings: PATCH /api/settings requests, one after the other ----
NextSettings == \E body \in SettingsBodies : PatchSettingsRoute(body)

SpecSettings == Init /\ [][NextSettings]_vars

\* ---- SpecClient: the hook, with timers that fire and close() calls that
\* complete ----
InitClient == SrvIdle /\ PrsIdle /\ LlmIdle /\ ExecutorInit /\ useCustomLLM = FALSE /\ ClientInit /\ PageInit

NextClient ==
    \/ Mount
    \/ SocketOpens
    \/ \E parses \in BOOLEAN : MessageArrives(parses)
    \/ SocketCloses
    \/ TimerFires
    \/ DisconnectCall
    \/ Unmount

ClosingCompletes == sock = "CLOSING" /\ SocketCloses

SpecClient ==
    /\ InitClient
    /\ [][NextClient]_vars
    /\ WF_vars(TimerFires)
    /\ WF_vars(ClosingCompletes)

\* ---- SpecPage: the page on top of the hook, with a server that answers
\* every request it received while the connection lasts ----
NextPage ==
    \/ Mount
    \/ SocketOpens
    \/ ClosingStarts
    \/ ConnectionLost
    \/ TimerFires
    \/ SubmitPrompt
    \/ handleRerun
    \/ StartedArrives
    \/ TerminalArrives

SpecPage ==
    /\ InitClient
    /\ [][NextPage]_vars
    /\ WF_vars(TimerFires)
    /\ WF_vars(SocketOpens)
    /\ WF_vars(sock = "CLOSING" /\ ConnectionLost)
    /\ WF_vars(StartedArrives)
    /\ WF_vars(TerminalArrives)

\* ---- SpecExecutor ----
InitExecutor ==
    SrvIdle /\ PrsIdle /\ LlmIdle /\ ExecutorInit /\ useCustomLLM \in BOOLEAN /\ ClientInit /\ PageInit

NextExecutor ==
    \/ \E model \in AutomationModels : InitializeCall(model)
    \/ \E ok \in BOOLEAN : InitializeDone(ok)
    \/ ExecuteCall
    \/ \E ok \in BOOLEAN : ExecuteDone(ok)
    \/ ExecuteAgentCall
    \/ \E ok \in BOOLEAN : ExecuteAgentDone(ok)
    \/ \E withPrompt \in BOOLEAN : ExtractCall(withPrompt)
    \/ \E ok \in BOOLEAN : ExtractActDone(ok)
    \/ \E ok \in BOOLEAN : ExtractDone(ok)
    \/ ObserveCall
    \/ \E ok \in BOOLEAN : ObserveDone(ok)

SpecExecutor == InitExecutor /\ [][NextExecutor]_vars

\* ---- SpecShape: calls whose requests are answered 2xx with a JSON object
\* of every shape _normalizeActionObject distinguishes ----
MaxIdLen == 2

IdChars == {"7", " "}

IdValues ==
    {Undefined, Null, Num(<<"0">>), Arr(<<>>), Arr(<<Str(<<"7">>)>>)}
    \cup {Str(chars) : chars \in SeqsUpTo(IdChars, MaxIdLen)}

ShapeObjects ==
    [elementId : IdValues,
     id : {Undefined, Str(<<"7">>)},
     ids : {Undefined, Arr(<<Str(<<"7">>)>>)},
     method : {Undefined, Null, Str(<<"click">>)},
     action : {Undefined, Str(<<"tap">>)},
     arguments : {Undefined, Str(<<"x">>), Num(<<"0">>)},
     argument : {Undefined, Str(<<"x">>), Arr(<<Str(<<"x">>)>>)}]

\* the object as the whole content, an object after a word, a word alone
ShapeAnswers ==
    {[status |-> "2xx", content |-> [type |-> "string", text |-> <<"{", "id", "}">>,
                                     obj |-> o]] : o \in ShapeObjects}
    \cup {[status |-> "2xx", content |-> [type |-> "string", text |-> t, obj |-> IdMembers]] :
            t \in {<<"t", "{", "id", "}">>, <<"t">>}}

NextShape ==
    \/ \E c \in Calls, schema \in BOOLEAN, messagesOk \in BOOLEAN :
          NextCall(c, schema, messagesOk)
    \/ \E c \in Calls : TokenAnswer(c, "token")
    \/ \E c \in Calls, answer \in ShapeAnswers : HttpAnswer(c, answer)
    \/ \E c \in Calls : CallSettled(c)

SpecShape == InitLLM /\ [][NextShape]_vars

\* ---- SpecParse ----
PrsInit ==
    /\ pPrompt \in PromptInputs
    /\ pPc = "start"
    /\ pGotos = <<>>
    /\ pSteps = <<>>
    /\ pActs = <<>>
    /\ pResults = <<>>
    /\ pRet = NotReturned

InitParse == SrvIdle /\ PrsInit /\ LlmIdle /\ OtherIdle

NextParse == ExecNavigate \/ ExecParse

SpecParse == InitParse /\ [][NextParse]_vars

\* ---- SpecRest: DELETE next to single-step executions ----
RestMessages == {m \in Messages : m.prompt = SinglePrompt}

NextRest ==
    \/ \E s \in Sockets : Connect(s)
    \/ \E s \in Sockets, m \in RestMessages : ReceiveMessage(s, m)
    \/ \E r \in Reqs, ok \in BOOLEAN : InitReturn(r, ok)
    \/ \E r \in Reqs, ok \in BOOLEAN : ActReturn(r, ok)
    \/ \E r \in Reqs, ok \in BOOLEAN : CleanupReturn(r, ok)
    \/ \E id \in Reqs : DeleteAutomationRoute(id)

SpecRest == Init /\ [][NextRest]_vars

\* ---- SpecSteps: the WebSocket server, every kind of message, with
\* multi-step executions ----
NextSteps ==
    \/ \E s \in Sockets : Connect(s)
    \/ \E s \in Sockets, m \in Messages : ReceiveMessage(s, m)
    \/ \E r \in Reqs, ok \in BOOLEAN : InitReturn(r, ok)
    \/ \E r \in Reqs, ok \in BOOLEAN : GotoReturn(r, ok)
    \/ \E r \in Reqs, ok \in BOOLEAN : ActReturn(r, ok)
    \/ \E r \in Reqs : DelayElapsed(r)
    \/ \E r \in Reqs, ok \in BOOLEAN : AgentReturn(r, ok)
    \/ \E r \in Reqs, ok \in BOOLEAN : CleanupReturn(r, ok)
    \/ \E s \in Sockets : SocketClose(s)
    \/ \E s \in Sockets, ok \in BOOLEAN : CloseHandlerReturn(s, ok)
    \/ PatchSettingsRoute(AgentBody)

SpecSteps == Init /\ [][NextSteps]_vars

\* ---- Spec: the WebSocket server, execute_automation messages for
\* executions of one step (act mode) or by the agent ----
WsMessages ==
    {m \in Messages : /\ m.type = "execute_automation"
                      /\ (m.prompt # MultiPrompt \/ m.model \notin AutomationModels)}

Next ==
    \/ \E s \in Sockets : Connect(s)
    \/ \E s \in Sockets, m \in WsMessages : ReceiveMessage(s, m)
    \/ \E r \in Reqs, ok \in BOOLEAN : InitReturn(r, ok)
    \/ \E r \in Reqs, ok \in BOOLEAN : ActReturn(r, ok)
    \/ \E r \in Reqs, ok \in BOOLEAN : AgentReturn(r, ok)
    \/ \E r \in Reqs, ok \in BOOLEAN : CleanupReturn(r, ok)
    \/ \E s \in Sockets : SocketClose(s)
    \/ \E s \in Sockets, ok \in BOOLEAN : CloseHandlerReturn(s, ok)
    \/ PatchSettingsRoute(AgentBody)

Spec == Init /\ [][Next]_vars

--------------------------------------------------------------------------
(* Properties of the WebSocket server (Spec, SpecSteps)                     *)

\* C1: an execute_automation message with a model outside
\* openai/anthropic/gemini, or with an empty prompt, is answered with exactly
\* one execution_error and nothing else: no execution_started, no Automation
\* record, no executor created or registered; the step that handles it leaves
\* the socket open and the handler finished, so later messages are handled.
C1_InvalidRequestRejected ==
    /\ [](\A r \in Reqs :
            LET m == req[r].msg
            IN  (/\ m.json
                 /\ m.type = "execute_automation"
                 /\ (m.model \notin {"openai", "anthropic", "gemini"} \/ m.prompt = <<>>))
                => /\ sent[r] = <<"execution_error">>
                   /\ r \notin DOMAIN automations
                   /\ ~ex[r].created
                   /\ \A s \in Sockets : activeExecutors[s] # r
                   /\ pc[r] = "done")
    /\ [][\A r \in Reqs :
            (/\ nextReq = r
             /\ nextReq' = r + 1
             /\ req'[r].msg.type = "execute_automation"
             /\ (req'[r].msg.model \notin {"openai", "anthropic", "gemini"}
                 \/ req'[r].msg.prompt = <<>>))
            => /\ readyState' = readyState
               /\ readyState'[req'[r].sock] = "OPEN"
               /\ automations' = automations
               /\ activeExecutors' = activeExecutors
               /\ ex' = ex]_vars

\* an invalid request was answered with execution_error, and a later request
\* on the same socket was accepted and started
C1_Witness ==
    \E r1 \in Reqs, r2 \in Reqs :
        /\ r1 < r2
        /\ req[r1].msg.type = "execute_automation"
        /\ req[r1].msg.model = "llama"
        /\ sent[r1] = <<"execution_error">>
        /\ req[r2].sock = req[r1].sock
        /\ sent[r2] # <<>>
        /\ Head(sent[r2]) = "execution_started"

\* C2: when the socket closes while an executor is registered for it, the
\* close handler calls cleanup() on that executor, which closes its browser
\* session; cleanup never throws, so neither the close handler nor a message
\* handler ends in an unhandled rejection, also when stagehand.close() fails.
C2_CloseRunsCleanup ==
    /\ [](unhandled = {})
    /\ [](\A s \in Sockets :
            (closeH[s].pc \in {"cleanup", "done"} /\ closeH[s].ex # NoExecutor)
            => /\ ex[closeH[s].ex].cleanupCalls >= 1
               /\ ex[closeH[s].ex].closeCalls >= 1)
    /\ [][\A s \in Sockets :
            (/\ readyState[s] = "OPEN"
             /\ readyState'[s] = "CLOSED"
             /\ activeExecutors[s] # NoExecutor)
            => LET e == activeExecutors[s]
               IN  /\ ex'[e].cleanupCalls = ex[e].cleanupCalls + 1
                   /\ ex'[e].closeCalls = ex[e].closeCalls + 1
                   /\ closeH'[s].ex = e]_vars

\* the socket closed during an execution, the close handler's
\* stagehand.close() failed, and the handler ended
C2_Witness ==
    \E s \in Sockets :
        /\ readyState[s] = "CLOSED"
        /\ closeH[s].pc = "done"
        /\ closeH[s].ex # NoExecutor
        /\ ex[closeH[s].ex].closeCalls >= 1
        /\ ex[closeH[s].ex].logs # <<>>
        /\ Last(ex[closeH[s].ex].logs) = "error"
        /\ pc[closeH[s].ex] # "done"

\* C5: for a validated execute_automation message, execution_started is the
\* first event sent and is sent once; at most one terminal event
\* (execution_completed or execution_error) is sent, none before the
\* execution has ended, and exactly one once the handler has finished with
\* the socket still open.
C5_StartedThenOneTerminal ==
    \A r \in Reqs :
        LET m == req[r].msg
            terminals == Count(sent[r], "execution_completed")
                         + Count(sent[r], "execution_error")
        IN  (/\ m.json
             /\ m.type = "execute_automation"
             /\ m.model \in {"openai", "anthropic", "gemini"}
             /\ m.prompt # <<>>)
            => /\ sent[r] # <<>>
               /\ Head(sent[r]) = "execution_started"
               /\ Count(sent[r], "execution_started") = 1
               /\ terminals <= 1
               /\ (pc[r] \notin {"cleanup", "done"} => terminals = 0)
               /\ ((pc[r] = "done" /\ readyState[req[r].sock] = "OPEN") => terminals = 1)

\* an execution that failed in initialize has ended on an open socket with
\* its one execution_error
C5_Witness ==
    \E r \in Reqs :
        /\ pc[r] = "done"
        /\ readyState[req[r].sock] = "OPEN"
        /\ ex[r].failure = "initialize"
        /\ ex[r].stagehand
        /\ Head(sent[r]) = "execution_started"
        /\ Count(sent[r], "execution_error") = 1

\* C6: when initialize throws, or act/agent fails inside execute or
\* executeAgent, the Automation record ends with status 'error' and its
\* error set, and the client is sent execution_error, not
\* execution_completed.
C6_FailureSendsExecutionError ==
    \A r \in Reqs :
        (/\ ex[r].failure # "none"
         /\ pc[r] = "done"
         /\ r \in DOMAIN automations
         /\ readyState[req[r].sock] = "OPEN")
        => /\ automations[r].status = "error"
           /\ automations[r].error = "message"
           /\ Count(sent[r], "execution_error") = 1
           /\ Count(sent[r], "execution_completed") = 0

\* C9: for every socket at most one executor has been created and not yet
\* handed to cleanup().
C9_OneExecutorPerSocket ==
    \A s \in Sockets :
        Cardinality({r \in Reqs : /\ req[r].sock = s
                                  /\ ex[r].created
                                  /\ ex[r].cleanupCalls = 0}) <= 1

--------------------------------------------------------------------------
(* Properties of the REST routes (SpecRest)                                 *)

\* C7: DELETE /api/automations/:id answers 404 and leaves the store as it is
\* when the id is not in the store; otherwise it answers 200 and removes
\* that record and no other; right after a successful DELETE the id is gone,
\* so the next DELETE of it answers 404.
C7_DeleteAutomation ==
    /\ []((http.route = "DELETE /api/automations/:id" /\ http.code = 200)
            => http.id \notin DOMAIN automations)
    /\ [][\A id \in Reqs :
            (/\ http' # http
             /\ http'.route = "DELETE /api/automations/:id"
             /\ http'.id = id)
            => IF id \in DOMAIN automations
               THEN /\ http'.code = 200
                    /\ DOMAIN automations' = DOMAIN automations \ {id}
                    /\ \A i \in DOMAIN automations' : automations'[i] = automations[i]
               ELSE /\ http'.code = 404
                    /\ automations' = automations]_vars

\* a record was deleted, the second DELETE of its id was answered 404, and
\* another record is still in the store
C7_Witness ==
    /\ http.route = "DELETE /api/automations/:id"
    /\ http.code = 404
    /\ http.id < nextReq
    /\ req[http.id].msg.type = "execute_automation"
    /\ http.id \notin DOMAIN automations
    /\ DOMAIN automations # {}

--------------------------------------------------------------------------
(* Properties of execute and parseMultiStepPrompt (SpecParse)               *)

\* C8 as stated: for a prompt made of a navigation clause followed by k >= 2
\* segments that each start with an action keyword, execute navigates once
\* and parseMultiStepPrompt yields k sub-steps, the i-th beginning with the
\* i-th keyword.
C8_KeywordSegmentsSplit ==
    LET navLen == IF Len(pPrompt) >= 1 /\ NavMatchesAt(pPrompt, 1)
                  THEN NavVerbLenAt(pPrompt, 1) + 1 ELSE 0
        rest == Slice(pPrompt, navLen + 1, Len(pPrompt))
        kwPos == {i \in 1..Len(rest) :
                     \/ rest[i] \in Keywords1
                     \/ (i < Len(rest) /\ <<rest[i], rest[i + 1]>> \in Keywords2)}
        k == Cardinality(kwPos)
        nth(i) == CHOOSE j \in kwPos : Cardinality({x \in kwPos : x <= j}) = i
    IN  (pPc = "parsed" /\ navLen > 0 /\ k >= 2 /\ 1 \in kwPos)
        => /\ pGotos = <<<<"https://", pPrompt[navLen]>>>>
           /\ Len(pSteps) = k
           /\ \A i \in 1..k : pSteps[i] # <<>> /\ pSteps[i][1] = rest[nth(i)]

\* C8, amended: the same, for prompts whose last segment has at least one
\* word after its keyword (the pattern wants whitespace after a keyword, so a
\* keyword that ends the prompt starts no sub-step).
C8_SegmentsWithTextSplit ==
    LET navLen == IF Len(pPrompt) >= 1 /\ NavMatchesAt(pPrompt, 1)
                  THEN NavVerbLenAt(pPrompt, 1) + 1 ELSE 0
        rest == Slice(pPrompt, navLen + 1, Len(pPrompt))
        kwPos == {i \in 1..Len(rest) :
                     \/ rest[i] \in Keywords1
                     \/ (i < Len(rest) /\ <<rest[i], rest[i + 1]>> \in Keywords2)}
        k == Cardinality(kwPos)
        nth(i) == CHOOSE j \in kwPos : Cardinality({x \in kwPos : x <= j}) = i
    IN  (pPc = "parsed" /\ navLen > 0 /\ k >= 2 /\ 1 \in kwPos /\ Len(rest) \notin kwPos)
        => /\ pGotos = <<<<"https://", pPrompt[navLen]>>>>
           /\ Len(pSteps) = k
           /\ \A i \in 1..k : pSteps[i] # <<>> /\ pSteps[i][1] = rest[nth(i)]

\* "go to example.com click a type a" was navigated and split into two
\* sub-steps beginning with click and type
C8_Witness ==
    /\ pPc = "parsed"
    /\ pPrompt = <<"go", "to", "example.com", "click", "a", "type", "a">>
    /\ pGotos = <<<<"https://", "example.com">>>>
    /\ Len(pSteps) = 2
    /\ pSteps[1][1] = "click"
    /\ pSteps[2] = <<"type", "a">>

--------------------------------------------------------------------------
(* Properties of createChatCompletion (SpecLLM)                             *)

\* C3: a call sends at most 3 requests; it returns as soon as a request is
\* answered 2xx with a parsable body; after the third failed request it
\* rejects with 'Max retries exceeded'.
C3_ThreeRequestsAtMost ==
    \A c \in Calls :
        /\ call[c].requests <= 3
        /\ (inflight[c].status = "2xx" => cpc[c] = "returned")
        /\ ((cpc[c] = "thrown" /\ call[c].requests = 3)
              => result[c].message = "Max retries exceeded")
        /\ ~(call[c].requests = 3 /\ cpc[c] = "backoff")

\* C4 as stated: a call that only ever sees 401 performs one token refresh
\* and two requests in total.
C4_OneRefreshOneRetry ==
    \A c \in Calls :
        (cpc[c] = "thrown" /\ call[c].only401 /\ call[c].requests >= 1)
        => call[c].refreshes = 1 /\ call[c].requests = 2

\* C4, amended: every 401 is followed by one token refresh (one call of
\* fetchOAuthConfigWithRetries) and, while fewer than 3 requests were sent,
\* by one more request; a call that only ever sees 401 performs three
\* requests and three refreshes and then rejects with 'Max retries
\* exceeded'.
C4_RefreshAfterEvery401 ==
    \A c \in Calls :
        (call[c].only401 /\ call[c].requests >= 1)
        => LET answered == call[c].requests - (IF cpc[c] = "request" THEN 1 ELSE 0)
           IN  /\ call[c].refreshes = answered
               /\ call[c].requests <= 3
               /\ cpc[c] # "returned"
               /\ (cpc[c] = "backoff" => call[c].requests < 3)
               /\ (cpc[c] = "thrown"
                     => /\ call[c].requests = 3
                        /\ call[c].refreshes = 3
                        /\ result[c].message = "Max retries exceeded")

\* a call whose three requests were all answered 401 has given up
C4_Witness ==
    \E c \in Calls :
        /\ cpc[c] = "thrown"
        /\ call[c].only401
        /\ call[c].requests = 3
        /\ call[c].refreshes = 3

\* C11: every value createChatCompletion returns, with or without a schema,
\* has an elementId that is a non-empty string, a method that is a value or
\* null (not missing), and an arguments field that is an array.
C11_ReturnedShape ==
    \A c \in Calls :
        cpc[c] = "returned"
        => /\ result[c].elementId.t = "string"
           /\ result[c].elementId.v # <<>>
           /\ result[c].method.t # "undefined"
           /\ result[c].arguments.t = "array"

\* an object whose elementId is a blank string and whose arguments is a
\* string was normalized to elementId "0-1" and a one-element array
C11_Witness ==
    \E c \in Calls :
        /\ cpc[c] = "returned"
        /\ result[c].kind = "normalized"
        /\ inflight[c].content.obj.elementId = Str(<<" ">>)
        /\ inflight[c].content.obj.id = Undefined
        /\ inflight[c].content.obj.ids = Undefined
        /\ inflight[c].content.obj.arguments = Str(<<"x">>)
        /\ result[c].elementId = Str(<<"0-1">>)
        /\ result[c].arguments = Arr(<<Str(<<"x">>)>>)

\* C12: across the calls on one client the token script is spawned only
\* when the client holds no token or right after a request was answered 401;
\* with a cached token, a call whose request is answered 2xx spawns nothing
\* and has sent the cached token.
C12_SpawnOnlyOnFirstUseOrAfter401 ==
    [][\A c \in Calls :
          /\ (cpc'[c] \in {"token", "refresh"} /\ cpc[c] \notin {"token", "refresh"})
                 => (oauthToken = 0 \/ call'[c].msg = "401")
          /\ (cpc[c] = "request" /\ cpc'[c] = "returned")
                 => /\ oauthToken' = oauthToken
                    /\ oauthToken # 0
                    /\ call[c].sentToken = oauthToken]_vars

\* C13: when the token script fails on every attempt (non-zero exit, output
\* that is not JSON, JSON without access_token), createChatCompletion rejects
\* and has sent no request; and a request is only ever sent while the client
\* holds a non-empty access token, which is the token the request carries.
C13_NoRequestWithoutToken ==
    /\ [](\A c \in Calls :
            /\ (cpc[c] = "thrown" /\ result[c].message = "token")
                   => (call[c].requests = 0 /\ oauthToken = 0)
            /\ cpc[c] = "request"
                   => (oauthToken # 0 /\ call[c].sentToken = oauthToken)
            /\ call[c].requests > 0 => call[c].sentToken # 0)
    /\ [][\A c \in Calls :
            (/\ cpc[c] = "token"
             /\ call[c].fetchI = fetchRetries - 1
             /\ cpc'[c] # "token"
             /\ inflight'[c].out # "token")
                => (cpc'[c] = "thrown" /\ call'[c].requests = 0 /\ oauthToken' = 0)]_vars

\* the script printed something that is not JSON three times: the call is
\* rejected with no request sent and no token held
C13_Witness ==
    \E c \in Calls :
        /\ cpc[c] = "thrown"
        /\ result[c].message = "token"
        /\ call[c].fetchI = fetchRetries - 1
        /\ inflight[c] = [status |-> "script", out |-> "not-json"]
        /\ call[c].requests = 0
        /\ oauthToken = 0

\* C14: execute, executeAgent, extract or observe on an executor whose
\* initialize has not completed successfully returns {success: false,
\* error: "Automation not initialized"} without throwing and without an SDK
\* call; only a successful initialize makes the executor initialized.
C14_UninitializedRefuses ==
    /\ (executor.stagehand /\ executor.page) => initialized
    /\ ~initialized
          => /\ \A i \in 1..Len(sdk) : sdk[i] = "init"
             /\ (ret.kind # "none" /\ ret.method # "initialize")
                    => ret = Returns(ret.method, FALSE, "Automation not initialized")

\* C15: in a multi-step execute the sub-steps are handed to act one at a
\* time, in the order of the parsed list; when act fails on step i no later
\* step is attempted, the earlier steps stay done, and execute returns
\* success = false with that step's error; when every step succeeds the
\* result is the last step's result.
C15_StepsInOrderStopAtFailure ==
    /\ [](Len(pSteps) > 1
            => /\ Len(pActs) <= Len(pSteps)
               /\ \A i \in 1..Len(pActs) : pActs[i] = pSteps[i]
               /\ Len(pResults) \in {Len(pActs) - 1, Len(pActs)}
               /\ pPc = "act" => Len(pResults) = Len(pActs) - 1
               /\ (pRet.kind = "returned" /\ ~pRet.success /\ pActs # <<>>)
                      => /\ pRet.error = Len(pActs) + 1
                         /\ Len(pResults) = Len(pActs) - 1
               /\ (pRet.kind = "returned" /\ pRet.success)
                      => /\ Len(pActs) = Len(pSteps)
                         /\ pRet.result = Len(pSteps))
    /\ [][/\ pRet.kind = "returned" => pActs' = pActs
          /\ Len(pActs') >= Len(pActs)
          /\ Len(pActs') <= Len(pActs) + 1
          /\ \A i \in 1..Len(pActs) : pActs'[i] = pActs[i]]_vars

\* three sub-steps, the second act failed: two acts, one result kept
C15_Witness ==
    /\ Len(pSteps) = 3
    /\ pRet.kind = "returned"
    /\ ~pRet.success
    /\ pRet.error = 3
    /\ pActs = <<pSteps[1], pSteps[2]>>
    /\ pResults = <<1>>

\* C16: an Automation record is created with status 'running' when its
\* request is accepted and is updated once, to 'success' or 'error', when
\* the execution ends; once the handler has finished the record is not
\* 'running', and a record that left 'running' never changes again.  (When
\* initialize throws on the missing API key, creation and update fall into
\* one turn of the event loop, and the record is first seen as 'error'.)
C16_RunningThenOneTerminalStatus ==
    /\ [](\A id \in DOMAIN automations :
            /\ automations[id].status \in {"running", "success", "error"}
            /\ automations[id].status = "running" <=> pc[id] \notin {"cleanup", "done"}
            /\ pc[id] # "none")
    /\ [][\A id \in DOMAIN automations' :
            IF id \notin DOMAIN automations
            THEN \/ automations'[id].status = "running"
                 \/ /\ automations'[id].status = "error"
                    /\ ex'[id].failure = "initialize"
                    /\ ~ex'[id].stagehand
            ELSE automations[id].status # "running"
                    => automations'[id] = automations[id]]_vars

\* two handlers have finished, one record is 'success', the other 'error'
C16_Witness ==
    \E r1, r2 \in Reqs :
        /\ pc[r1] = "done" /\ pc[r2] = "done"
        /\ r1 \in DOMAIN automations /\ r2 \in DOMAIN automations
        /\ automations[r1].status = "success"
        /\ automations[r2].status = "error"

\* C17: initialize(model) constructs the SDK with the custom OAuth LLM
\* client when USE_CUSTOM_LLM is true and with a vendor-keyed model string
\* otherwise; with USE_CUSTOM_LLM true it does not fail for want of the
\* vendor API key of the requested model.
C17_CustomClientWhenEnabled ==
    /\ executor.stagehand
          => (IF useCustomLLM THEN executor.llm = "CustomLLMClient"
              ELSE executor.llm \in {stagehandModel(m) : m \in AutomationModels})
    /\ (useCustomLLM /\ ret.method = "initialize" /\ ret.kind = "thrown")
          => ret.error # "API key not found"

\* C18: the second createChatCompletion makes at most 3 attempts and then
\* throws, whatever the failures are (401, HTTP 500, network error,
\* unparsable body).
C18_SecondAtMostThreeAttempts ==
    \A c \in Calls : call[c].requests <= secondRetries

\* C19 as stated: when the socket closes the hook marks itself disconnected
\* and schedules a connection attempt, and while the hook is mounted a closed
\* connection is always eventually followed by another connection attempt.
C19_ClosedLeadsToAttempt ==
    /\ [][(sock # "CLOSED" /\ sock' = "CLOSED") => (~isConnected' /\ timer')]_vars
    /\ (sock = "CLOSED" /\ mounted = "yes") ~> (sock = "CONNECTING" \/ mounted # "yes")

\* C19, amended: the same, unless disconnect() was called while the
\* reconnection was pending, which cancels it for good.
C19_ClosedLeadsToAttemptUnlessCancelled ==
    /\ [][(sock # "CLOSED" /\ sock' = "CLOSED") => (~isConnected' /\ timer')]_vars
    /\ (sock = "CLOSED" /\ mounted = "yes")
          ~> (sock = "CONNECTING" \/ mounted # "yes" \/ (sock = "CLOSED" /\ ~timer))
    /\ [][(sock = "CLOSED" /\ timer /\ ~timer' /\ sock' = "CLOSED") => disconnect]_vars

\* a mounted hook is connecting again after its socket had closed
C19_Witness ==
    /\ mounted = "yes"
    /\ sock = "CONNECTING"
    /\ closeEvents >= 1
    /\ attempts >= 2
    /\ ~isConnected
    /\ ~timer

\* C20: PATCH /api/settings with a body that fails validation answers 400
\* with details and leaves the settings row as it was; with a valid partial
\* body it answers 200, the supplied fields take the supplied values,
\* updatedAt is renewed and every other field keeps its value.
C20_PatchSettingsFrame ==
    [][LET body == http'.body
       IN  IF \E f \in DOMAIN body : body[f].t # "string"
           THEN /\ http'.code = 400
                /\ http'.details
                /\ settings' = settings
           ELSE /\ http'.code = 200
                /\ \A f \in SettingsFields :
                      settings'[f] = IF f \in DOMAIN body THEN body[f].v ELSE settings[f]
                /\ settings'.updatedAt = "patch"
                /\ DOMAIN settings' = DOMAIN settings]_vars

\* the theme was patched after the mode: both are set, the rest is as
\* constructed
C20_Witness ==
    /\ http.route = "PATCH /api/settings"
    /\ http.code = 200
    /\ DOMAIN http.body = {"theme"}
    /\ settings = [selectedModel |-> "openai", screenshotMode |-> "none",
                   theme |-> "dark", automationMode |-> "agent",
                   updatedAt |-> "patch"]

\* C21: every instruction execute passes to act is one of the sub-steps
\* parseMultiStepPrompt returned; for a prompt that is only a navigation
\* clause act is not called; no instruction passed to act contains the
\* navigation clause.
C21_ActsAreParsedSubSteps ==
    \A i \in 1..Len(pActs) :
        /\ \E j \in 1..Len(pSteps) : pSteps[j] = pActs[i]
        /\ urlMatch(pActs[i]) = 0

\* C22: stagehand.close() is never invoked twice for the same executor,
\* also when the socket closes while the execution is running and the close
\* handler's cleanup is followed by the cleanup of the handler's finally block.
C22_CloseAtMostOnce == \A r \in Reqs : ex[r].closeCalls <= 1

\* C23: the terminal event is the last message of a request: once
\* execution_completed or execution_error has been sent for it, no
\* execution_log of that request's executor is sent.
C23_TerminalEventIsLast ==
    \A r \in Reqs : \A i, j \in 1..Len(sent[r]) :
        (i < j /\ sent[r][i] \in {"execution_completed", "execution_error"})
            => sent[r][j] # "execution_log"

\* C24: the sub-steps partition the text after the navigation clause: for
\* a text that begins with an action keyword, the i-th sub-step is exactly
\* the text from the i-th keyword up to the next keyword (the last one up to
\* the end), so that nothing is repeated and nothing is dropped.
C24_SubStepsPartitionText ==
    LET c == cleanPrompt(pPrompt)
        n == Len(c.toks)
        kwPos == {i \in 1..n : KeywordLenAt(c, i) > 0}
        k == Cardinality(kwPos)
        nth(i) == CHOOSE j \in kwPos : Cardinality({x \in kwPos : x <= j}) = i
        endOf(i) == IF i = k THEN n ELSE nth(i + 1) - 1
    IN  (pPc = "parsed" /\ 1 \in kwPos)
        => /\ Len(pSteps) = k
           /\ \A i \in 1..k : pSteps[i] = Slice(c.toks, nth(i), endOf(i))

\* C25: at most one token-fetch process is in flight per CustomLLMClient:
\* two overlapping createChatCompletion calls that find no cached token, or
\* that are both answered 401, do not both have the token script running.
C25_OneTokenFetchInFlight ==
    Cardinality({c \in Calls : cpc[c] \in {"token", "refresh"}}) <= 1

\* C26: after disconnect() no further connection is opened; stated for the
\* disconnect the hook performs on unmount, after which nothing but the
\* socket and the timer can act: no step of an unmounted hook opens a new
\* WebSocket.
C26_NoConnectionAfterDisconnect ==
    [][mounted = "unmounted" => ~(sock' = "CONNECTING" /\ sock # "CONNECTING")]_vars

\* C27: the client never sends a second execute_automation while one is
\* executing: at most one request of the connection is without its terminal
\* event, whether requests come from the prompt box or from a re-run.
C27_OneRequestOutstanding == awaitingStart + awaitingEnd <= 1

\* C28: after handleExecute has set isExecuting, isExecuting eventually
\* returns to false, also when the socket closes before the terminal event
\* or when send dropped the request.
C28_ExecutingEventuallyEnds == isExecuting ~> ~isExecuting

\* C29: activeExecutors holds no stale entry: once every message handler
\* started on a socket has finished and, if the socket closed, its close
\* handler too, the map has no entry for the socket.
C29_NoStaleEntry ==
    \A s \in Sockets :
        (/\ \A r \in Reqs : req[r].sock = s => pc[r] = "done"
         /\ closeH[s].pc \in {"idle", "done"})
            => activeExecutors[s] = NoExecutor

\* two executions on one socket, which closed while one of them was running:
\* both handlers and the close handler are done, the close handler and the
\* finally block have both cleaned up an executor, and the entry is gone
C29_Witness ==
    \E s \in Sockets :
        /\ readyState[s] = "CLOSED"
        /\ closeH[s].pc = "done"
        /\ closeH[s].ex # NoExecutor
        /\ \A r \in Reqs : req[r].sock = s /\ pc[r] = "done" /\ ex[r].created
        /\ \E r \in Reqs : ex[r].cleanupCalls = 2
        /\ activeExecutors[s] = NoExecutor

\* C30: a record removed with DELETE while its execution is running is not
\* re-created by the later completion update: a record that is absent comes
\* into the store only by the createAutomation of the handler that receives
\* its message, so that a deleted record stays absent.
C30_DeletedStaysAbsent ==
    [][\A id \in Reqs :
          (id \notin DOMAIN automations /\ id \in DOMAIN automations')
              => (nextReq = id /\ nextReq' = id + 1)]_vars

\* record 1 was deleted (200) while its handler awaited stagehand.act; the
\* handler has since done the completion update and sent
\* execution_completed, and the record is absent
C30_Witness ==
    /\ http.route = "DELETE /api/automations/:id"
    /\ http.id = 1
    /\ http.code = 200
    /\ http.handler = "act"
    /\ pc[1] = "cleanup"
    /\ \E i \in 1..Len(sent[1]) : sent[1][i] = "execution_completed"
    /\ 1 \notin DOMAIN automations

\* C10: when a schema is requested and the content of a 2xx answer is a
\* string that is not JSON and has no part that parses as a JSON object, the
\* call returns the default action {elementId: "0-1", method: null,
\* arguments: []}; it throws nothing and sends no further request.
C10_DefaultActionOnUnparsableContent ==
    \A c \in Calls :
        LET a == inflight[c]
        IN  (/\ a.status = "2xx"
             /\ call[c].schema
             /\ a.content.type = "string"
             /\ JSONParse(a.content.text).type = "SyntaxError"
             /\ \A i \in 1..Len(a.content.text), j \in 1..Len(a.content.text) :
                   i <= j => JSONParse(SubSeq(a.content.text, i, j)).type # "object")
            => /\ cpc[c] = "returned"
               /\ result[c].kind = "default"
               /\ result[c].elementId = Str(<<"0-1">>)
               /\ result[c].method = Null
               /\ result[c].arguments = Arr(<<>>)
               /\ call[c].requests = call[c].attempt

\* a call with a schema got a 2xx whose content has braces around text that
\* is not JSON, and returned the default action
C10_Witness ==
    \E c \in Calls :
        /\ inflight[c].status = "2xx"
        /\ call[c].schema
        /\ inflight[c].content.type = "string"
        /\ inflight[c].content.text = <<"{", "t", "}">>
        /\ cpc[c] = "returned"
        /\ result[c].kind = "default"

==========================================================================
